---- MODULE Spec2Model ----
(***************************************************************************)
(* siderite: the protocol-47 connection pipeline.                          *)
(*                                                                         *)
(* One Protocol per accepted connection, owned by the scheduler thread     *)
(* (ProtocolThread), an acceptor (Server::start), and an authenticator     *)
(* worker that calls Server::auth_user.  The socket, the RSA decryption    *)
(* and the session validator are the environment: their outcomes are       *)
(* chosen nondeterministically where the code reads them.                  *)
(*                                                                         *)
(* The model is the release build: debug_assert! is compiled out; a        *)
(* debug_assert on the protocol state that would have failed is recorded   *)
(* in the history field `asserted`.  unwrap()/expect()/panic! on a failure *)
(* ends the thread that runs it (`panicked`).                              *)
(***************************************************************************)
EXTENDS Integers, Sequences, FiniteSets, TLC

VARIABLES
    cfg,        \* ServerConfig, fixed at construction
    now,        \* the monotonic clock (Instant::now()), in seconds
    prot,       \* client id -> Protocol fields
    client,     \* client id -> Client fields
    chan,       \* client id -> outbound queue (Client.protocol / Protocol.receiver)
    wire,       \* client id -> frames written to the socket, oldest first
    clients,    \* Server.clients: registry of client ids not yet in a world
    players,    \* the players of the default world (client ids)
    authq,      \* Server.authenticator channel of AuthInfo
    sched,      \* ProtocolThread: prots, rx, last_keep_alive and the position in tick
    acceptor,   \* Server::start: next entity id and position in the accept loop
    panicked,   \* threads ended by a panic
    hist,       \* client id -> history of the connection (ghost)
    codec,      \* one connection at the level of bytes: socket, ring, framing
    column,     \* one chunk and what the version-47 serializer made of it
    call,       \* one call of a pure function: its input and its result
    locks,      \* the threads at the level of their lock acquisitions
    chunks,     \* a ChunkMap and the threads that call it
    listener    \* the accept loop and the sockets of the clients, byte by byte

vars == <<cfg, now, prot, client, chan, wire, clients, players, authq, sched,
          acceptor, panicked, hist, codec, column, call, locks, chunks, listener>>

-----------------------------------------------------------------------------
(* Program constants *)

VERIFY_TOKEN_LEN == 4
ENCRYPTION_KEY_LEN == 16
KEEP_ALIVE_MAX == 30
KEEP_ALIVE_INTERVAL == 2

(* Bounds of the model *)

\* connections the acceptor takes
MaxConns == 2
\* socket reads that deliver data, per connection
MaxReads == 4
\* frames one socket read delivers
MaxFrames == 1
\* the clock stops here when it runs at all (with one connection)
LongClock == 30
\* a write failure hits one of the first MaxFailAt writes of a call, or none
MaxFailAt == 2
\* history counters stop at this value
MaxCount == 2

ClientIds == 0 .. (MaxConns - 1)

-----------------------------------------------------------------------------
(* Types *)

\* enum State
States == {"HandShaking", "Status", "Login", "Play", "Disconnected"}

\* State::from_i32: the discriminant's variant, "" for None
State_from_i32(v) ==
    CASE v = 0 -> "HandShaking"
      [] v = 1 -> "Status"
      [] v = 2 -> "Login"
      [] v = 3 -> "Play"
      [] v = 255 -> "Disconnected"
      [] OTHER -> ""

\* Option<i32>
None == [some |-> FALSE, v |-> 0]
Some(x) == [some |-> TRUE, v |-> x]

\* An inbound frame as handle_in_packets sees it, after the length prefix:
\*   id    packet id
\*   wf    the body holds every field the handler for (state, id) reads
\*   zlib  under compression: the data-length varint is nonzero
\*   n     an integer field: next_state (Handshake), action id (Client Status),
\*         0 for a chat message that starts with '/'
\*   vt,ss result of RSA-decrypting the verify token / shared secret
\*         (Encryption Response): "err" decryption fails, "len" wrong length,
\*         "bytes" right length but other bytes (vt only), "ok"
Frame(id, wf, n, vt, ss, zlib) ==
    [id |-> id, wf |-> wf, n |-> n, vt |-> vt, ss |-> ss, zlib |-> zlib]

NextStates == {0, 1, 2, 3, 4, 255}

InFrames ==
         {Frame(0, TRUE, n, "ok", "ok", FALSE) : n \in NextStates}
    \cup {Frame(0, FALSE, 0, "ok", "ok", FALSE), Frame(0, TRUE, 0, "ok", "ok", TRUE)}
    \cup {Frame(1, TRUE, 1, v, "ok", FALSE) : v \in {"err", "len", "bytes", "ok"}}
    \cup {Frame(1, TRUE, 1, "ok", s, FALSE) : s \in {"err", "len"}}
    \cup {Frame(1, FALSE, 1, "ok", "ok", FALSE)}
    \cup {Frame(10, TRUE, 0, "ok", "ok", FALSE)}
    \cup {Frame(22, TRUE, a, "ok", "ok", FALSE) : a \in {0, 3}}
    \cup {Frame(127, TRUE, 0, "ok", "ok", FALSE)}

\* enum Packet (outbound queue element)
Packet(kind, text, x, z) == [kind |-> kind, text |-> text, x |-> x, z |-> z]
Pk(kind) == Packet(kind, "", 0, 0)

\* A frame written to the socket by write_packet
Written(id, kind, text, compressed, encrypted) ==
    [id |-> id, kind |-> kind, text |-> text, compressed |-> compressed,
     encrypted |-> encrypted]

\* std::io::ErrorKind
DisconnectionErrors ==
    {"NotConnected", "ConnectionAborted", "ConnectionRefused", "ConnectionReset",
     "BrokenPipe"}
is_disconnection_error(e) == e \in DisconnectionErrors

\* what a failing write on a connected non-blocking socket returns
WriteErrors == {"WouldBlock", "ConnectionReset"}

-----------------------------------------------------------------------------
(* Protocol: the methods of one connection, as operators on a context.     *)
(* A context carries what a call on the scheduler thread reads and writes: *)
(*   id      the client id                                                 *)
(*   p, cl   the Protocol and Client fields                                *)
(*   w       the frames written to the socket                              *)
(*   aq      the authenticator channel                                     *)
(*   ch      the outbound queues (a chat broadcast pushes to other ones)   *)
(*   h       the connection's history                                      *)
(*   nw      the writes this call has made                                 *)
(*   failAt  which write of this call fails (0: none); ekind, its error    *)
(*   shutOk  whether TcpStream::shutdown returns Ok                        *)
(*   err     the io::Result of the last call: "" is Ok(())                 *)
(*   panic   the thread has panicked; nothing runs after that              *)

\* Protocol::new
NewProtocol(t) ==
    [state |-> "HandShaking", compressed |-> FALSE, crypter |-> FALSE,
     last_keep_alive |-> t, received_data |-> <<>>, shut |-> FALSE,
     dropped |-> FALSE]

\* Client::new
NewClient == [username |-> <<>>, uuid |-> 0, player |-> FALSE]

\* The history of a connection:
\*   reads         data reads so far
\*   encOk         an Encryption Response arrived in Login whose verify token
\*                 decrypts to the stored bytes and whose shared secret
\*                 decrypts to ENCRYPTION_KEY_LEN bytes
\*   tampered      an Encryption Response arrived in Login whose verify token
\*                 does not decrypt to the stored bytes
\*   decodeFail    a handler could not decode the body it was given
\*   wfail, rfail  a socket write / read returned an error (or 0 bytes)
\*   loginSuccess  a LoginSuccess was taken from the outbound queue
\*   asserted      the <<method, state>> of every debug_assert on the state
\*                 that would have failed
\*   full          auth_user ran for the connection with online_players >=
\*                 max_players
\*   authFailed    the validator answered Err for an AuthInfo of the connection
\*   authInfos     how many AuthInfo the connection has sent to the
\*                 authenticator, counted up to MaxCount
\*   queuedLogins  how many LoginSuccess were put on the connection's
\*                 outbound queue, counted up to MaxCount
\*   playAt        the clock when login_success made the state Play
NewHist ==
    [reads |-> 0, encOk |-> FALSE, tampered |-> FALSE, decodeFail |-> FALSE,
     wfail |-> FALSE, rfail |-> FALSE, loginSuccess |-> FALSE, asserted |-> {},
     full |-> FALSE, authFailed |-> FALSE, authInfos |-> 0, queuedLogins |-> 0,
     playAt |-> 0]

\* a history counter one higher, up to MaxCount
Counted(n) == IF n < MaxCount THEN n + 1 ELSE n

Ok(ctx) == [ctx EXCEPT !.err = ""]
Err(ctx, e) == [ctx EXCEPT !.err = e]
IsErr(ctx) == ctx.err # ""
Panic(ctx) == [ctx EXCEPT !.panic = TRUE]

\* a read of the body fails, or an enum has no such value, and is unwrapped
DecodeFailure(ctx) == Panic([ctx EXCEPT !.h.decodeFail = TRUE])

\* debug_assert_eq!(self.state, s) in method m: compiled out, recorded
DebugAssertState(ctx, m, ss) ==
    IF ctx.p.state \in ss THEN ctx
    ELSE [ctx EXCEPT !.h.asserted = @ \cup {<<m, ctx.p.state>>}]

\* Protocol::write_packet: one frame to the socket, or the error of the write.
\* A socket that was shut down takes no more bytes.
write_packet(ctx, id, kind, text) ==
    IF ctx.p.shut THEN [ctx EXCEPT !.err = "BrokenPipe", !.h.wfail = TRUE]
    ELSE IF ctx.nw + 1 = ctx.failAt
    THEN [ctx EXCEPT !.nw = @ + 1, !.err = ctx.ekind, !.h.wfail = TRUE]
    ELSE [ctx EXCEPT !.w = Append(@, Written(id, kind, text, ctx.p.compressed,
                                             ctx.p.crypter)),
                     !.nw = @ + 1,
                     !.err = ""]

\* Protocol::shutdown
shutdown(ctx) ==
    [ctx EXCEPT !.p.state = "Disconnected",
                !.p.shut = TRUE,
                !.err = IF ctx.shutOk THEN "" ELSE "NotConnected"]

\* self.shutdown().unwrap()
shutdown_unwrap(ctx) ==
    LET r == shutdown(ctx) IN IF IsErr(r) THEN Panic(r) ELSE r

\* Protocol::disconnect
disconnect(ctx, reason) ==
    LET a == DebugAssertState(ctx, "disconnect", {"Login", "Play"}) IN
    IF a.p.state \notin {"Login", "Play"} THEN Panic(a)
    ELSE LET r == write_packet(a, IF a.p.state = "Login" THEN 0 ELSE 64,
                               "Disconnect", reason)
         IN IF IsErr(r) THEN r ELSE shutdown(r)

\* self.disconnect(..).unwrap()
disconnect_unwrap(ctx, reason) ==
    LET r == disconnect(ctx, reason) IN
    IF r.panic THEN r ELSE IF IsErr(r) THEN Panic(r) ELSE r

\* Client::handle_login: AuthInfo to the authenticator
handle_login(ctx, server_id) ==
    IF ctx.cl.username = <<>> THEN Panic(ctx)
    ELSE [ctx EXCEPT !.aq = Append(@, [client_id |-> ctx.id,
                                       server_id |-> server_id,
                                       username |-> ctx.cl.username[1]]),
                     !.h.authInfos = Counted(@),
                     !.err = ""]

\* Protocol::handle_handshake
handle_handshake(ctx, f) ==
    IF ~f.wf THEN DecodeFailure(ctx)
    ELSE IF State_from_i32(f.n) = "" THEN DecodeFailure(ctx)
    ELSE [ctx EXCEPT !.p.state = State_from_i32(f.n)]

\* Protocol::handle_request
handle_request(ctx) ==
    write_packet(DebugAssertState(ctx, "handler", {"Status"}), 0, "Response", "")

\* Protocol::handle_ping
handle_ping(ctx, f) ==
    IF ~f.wf THEN DecodeFailure(ctx)
    ELSE write_packet(DebugAssertState(ctx, "handler", {"Status"}), 1, "Pong", "")

\* Protocol.verify_token: drawn when the Protocol is made, one per
\* connection
verify_token(id) == ToString(id)

\* Protocol::encryption_request: server id, public key and verify_token
encryption_request(ctx) ==
    write_packet(DebugAssertState(ctx, "handler", {"Login"}), 1,
                 "EncryptionRequest", verify_token(ctx.id))

\* handle_login_start that asks for authentication with encryption on too
handle_login_start_auth_at_once(ctx, f) ==
    IF ~f.wf THEN DecodeFailure(ctx)
    ELSE LET u == [ctx EXCEPT !.cl.username = <<"user">>]
             r == handle_login(IF cfg.encryption THEN encryption_request(u) ELSE u,
                               None)
         IN IF r.panic THEN r ELSE Ok(r)

\* Protocol::handle_login_start
handle_login_start(ctx, f) ==
    IF ~f.wf THEN DecodeFailure(ctx)
    ELSE LET u == [ctx EXCEPT !.cl.username = <<"user">>] IN
         IF cfg.encryption THEN encryption_request(u)
         ELSE LET r == handle_login(u, None) IN
              IF r.panic THEN r ELSE Ok(r)

\* handle_encryption_response without its `ssd_len != ENCRYPTION_KEY_LEN` branch
handle_encryption_response_any_key_len(ctx, f) ==
    IF ~f.wf THEN DecodeFailure(ctx)
    ELSE IF f.vt = "err" THEN Panic(ctx)
    ELSE IF f.vt \in {"len", "bytes"} THEN
        LET r == disconnect(ctx, "Hacked client") IN
        IF r.panic \/ IsErr(r) THEN r ELSE Ok(r)
    ELSE IF f.ss = "err" THEN Panic(ctx)
    ELSE LET k == [ctx EXCEPT !.p.crypter = TRUE]
             r == handle_login(k, Some(1))
         IN IF r.panic THEN r ELSE Ok(r)

\* Protocol::handle_encryption_response
handle_encryption_response(ctx, f) ==
    IF ~f.wf THEN DecodeFailure(ctx)
    ELSE IF f.vt = "err" THEN Panic(ctx)
    ELSE IF f.vt = "len" THEN
        LET r == disconnect(ctx, "Hacked client") IN
        IF r.panic \/ IsErr(r) THEN r ELSE Ok(r)
    ELSE IF f.vt = "bytes" THEN
        LET r == disconnect(ctx, "Hacked client") IN
        IF r.panic \/ IsErr(r) THEN r ELSE Ok(r)
    ELSE IF f.ss = "err" THEN Panic(ctx)
    ELSE IF f.ss = "len" THEN
        LET r == disconnect(ctx, "Hacked client") IN
        IF r.panic \/ IsErr(r) THEN r ELSE Ok(r)
    ELSE LET k == [ctx EXCEPT !.p.crypter = TRUE]
             r == handle_login(k, Some(1))
         IN IF r.panic THEN r ELSE Ok(r)

\* Server::broadcast, on the queues q: the packet to every player of the world
broadcast(q, ps, pk) ==
    [c \in ClientIds |-> IF c \in ps THEN Append(q[c], pk) ELSE q[c]]

\* Protocol::handle_keep_alive
handle_keep_alive(ctx, f) ==
    LET a == DebugAssertState(ctx, "handler", {"Play"}) IN
    IF ~f.wf THEN DecodeFailure(a)
    ELSE IF now - a.p.last_keep_alive >= KEEP_ALIVE_MAX
         THEN disconnect_unwrap(a, "Timed out!")
         ELSE [a EXCEPT !.p.last_keep_alive = now]

\* Protocol::handle_chat_message
handle_chat_message(ctx, f) ==
    LET a == DebugAssertState(ctx, "handler", {"Play"}) IN
    IF ~f.wf THEN DecodeFailure(a)
    ELSE IF f.n = 0 THEN a
    ELSE IF a.cl.username = <<>> THEN Panic(a)
    ELSE [a EXCEPT !.ch = broadcast(@, players, Packet("ChatMessage", "chat", 0, 0))]

\* Protocol::handle_client_status
handle_client_status(ctx, f) ==
    LET a == DebugAssertState(ctx, "handler", {"Play"}) IN
    IF ~f.wf THEN DecodeFailure(a)
    ELSE IF f.n \in {0, 1, 2} THEN a
    ELSE disconnect_unwrap(a, "Hacked client")

\* The Play handlers that only decode their body: handle_player (0x03),
\* handle_player_pos, handle_player_look, handle_player_pos_look,
\* handle_player_digging, handle_player_block_placement,
\* handle_held_item_change, handle_entity_action, handle_close_window,
\* handle_click_window, handle_creative_inventory_action,
\* handle_player_abilities, handle_client_settings, handle_plugin_message
DecodeOnlyIds == {3, 4, 5, 6, 7, 8, 9, 11, 13, 14, 16, 19, 21, 23}
handle_decode_only(ctx, f) ==
    LET a == DebugAssertState(ctx, "handler", {"Play"}) IN
    IF ~f.wf THEN DecodeFailure(a) ELSE a

\* `if let Err(e) = res { self.state = State::Disconnected }`
OnErrDisconnected(r) ==
    IF r.panic THEN r
    ELSE IF IsErr(r) THEN [r EXCEPT !.p.state = "Disconnected", !.err = ""]
    ELSE r

\* Protocol::handle_packet
handle_packet(ctx, f) ==
    CASE ctx.p.state = "HandShaking" ->
            IF f.id = 0 THEN handle_handshake(ctx, f) ELSE shutdown_unwrap(ctx)
      [] ctx.p.state = "Status" ->
            OnErrDisconnected(
                CASE f.id = 0 -> handle_request(ctx)
                  [] f.id = 1 -> handle_ping(ctx, f)
                  [] OTHER -> shutdown(ctx))
      [] ctx.p.state = "Login" ->
            OnErrDisconnected(
                CASE f.id = 0 -> handle_login_start(ctx, f)
                  [] f.id = 1 -> handle_encryption_response(ctx, f)
                  [] OTHER -> disconnect(ctx, "Unknown packet"))
      [] ctx.p.state = "Play" ->
            CASE f.id = 0 -> handle_keep_alive(ctx, f)
              [] f.id = 1 -> handle_chat_message(ctx, f)
              [] f.id \in DecodeOnlyIds -> handle_decode_only(ctx, f)
              [] f.id = 10 -> ctx
              [] f.id = 22 -> handle_client_status(ctx, f)
              [] OTHER -> disconnect_unwrap(ctx, "Unknown packet")
      [] OTHER -> ctx

\* history: what kind of Encryption Response the frame f is, seen in Login
Observe(ctx, f) ==
    IF ctx.p.state = "Login" /\ f.id = 1 /\ f.wf
    THEN [ctx EXCEPT !.h.encOk = @ \/ (f.vt = "ok" /\ f.ss = "ok"),
                     !.h.tampered = @ \/ f.vt # "ok"]
    ELSE ctx

\* Protocol::handle_in_packets: the loop over the complete frames of the ring
RECURSIVE handle_in_packets(_)
handle_in_packets(ctx) ==
    IF ctx.panic \/ ctx.p.state = "Disconnected" \/ ctx.p.received_data = <<>>
    THEN ctx
    ELSE LET f == Head(ctx.p.received_data)
             c == Observe([ctx EXCEPT !.p.received_data = Tail(@)], f)
         IN IF c.p.compressed /\ f.zlib
            THEN handle_packet(c, f)
            ELSE handle_in_packets(handle_packet(c, f))

\* Protocol::process_data.  rd is what the socket gives: the result of peek
\* ("WouldBlock", "Reset" a disconnection error, "Other" another error,
\* "Closed" a read of 0 bytes, "Data") and the frames a data read completes.
process_data(ctx, rd) ==
    CASE rd.kind = "WouldBlock" -> ctx
      [] rd.kind = "Reset" ->
            [ctx EXCEPT !.p.state = "Disconnected", !.h.rfail = TRUE]
      [] rd.kind = "Other" -> shutdown_unwrap([ctx EXCEPT !.h.rfail = TRUE])
      [] rd.kind = "Closed" -> Ok(shutdown([ctx EXCEPT !.h.rfail = TRUE]))
      [] OTHER ->
            handle_in_packets(
                [ctx EXCEPT !.p.received_data = @ \o rd.frames,
                            !.h.reads = @ + 1])

\* keep_alive without its `if self.state != State::Play { return; }`
keep_alive_any_state(ctx, id) ==
    LET r == write_packet(ctx, 0, "KeepAlive", ToString(id)) IN
    IF IsErr(r) /\ is_disconnection_error(r.err)
    THEN [r EXCEPT !.p.state = "Disconnected", !.err = ""]
    ELSE Ok(r)

\* Protocol::keep_alive
keep_alive(ctx, id) ==
    IF ctx.p.state # "Play" THEN ctx
    ELSE LET r == write_packet(ctx, 0, "KeepAlive", ToString(id)) IN
         IF IsErr(r) /\ is_disconnection_error(r.err)
         THEN [r EXCEPT !.p.state = "Disconnected", !.err = ""]
         ELSE Ok(r)

\* set_compression with `self.compressed = true` before its write_packet
set_compression_flag_first(ctx) ==
    LET r == write_packet([DebugAssertState(ctx, "set_compression", {"Login"})
                               EXCEPT !.p.compressed = TRUE], 3,
                          "SetCompression", ToString(cfg.compression_threshold.v))
    IN IF IsErr(r) THEN [r EXCEPT !.p.compressed = ctx.p.compressed] ELSE r

\* Protocol::set_compression
set_compression(ctx) ==
    LET r == write_packet(DebugAssertState(ctx, "set_compression", {"Login"}), 3,
                          "SetCompression", ToString(cfg.compression_threshold.v))
    IN IF IsErr(r) THEN r ELSE [r EXCEPT !.p.compressed = TRUE]

\* login_success without its `self.state = State::Play`
login_success_stays_in_login(ctx) ==
    LET a == DebugAssertState(ctx, "login_success", {"Login"})
        c == IF cfg.compression_threshold.some THEN set_compression(a) ELSE a
    IN IF IsErr(c) THEN c
       ELSE IF c.cl.username = <<>> THEN Panic(c)
       ELSE write_packet(c, 2, "LoginSuccess", "")

\* Protocol::login_success
login_success(ctx) ==
    LET a == DebugAssertState(ctx, "login_success", {"Login"})
        c == IF cfg.compression_threshold.some THEN set_compression(a) ELSE a
    IN IF IsErr(c) THEN c
       ELSE LET s == [c EXCEPT !.p.state = "Play", !.h.playAt = now] IN
            IF s.cl.username = <<>> THEN Panic(s)
            ELSE write_packet(s, 2, "LoginSuccess", "")

\* The writers of the Play packets: join_game, chat_message, time_update,
\* spawn_position, player_pos_look, spawn_player, chunk_data,
\* change_game_state, player_list_item, player_abilities, server_difficulty,
\* resource_pack_send
PlayPacketId(kind) ==
    CASE kind = "JoinGame" -> 1
      [] kind = "ChatMessage" -> 2
      [] kind = "TimeUpdate" -> 3
      [] kind = "SpawnPosition" -> 5
      [] kind = "PlayerPositionAndLook" -> 8
      [] kind = "SpawnPlayer" -> 12
      [] kind = "ChunkData" -> 33
      [] kind = "ChangeGameState" -> 43
      [] kind = "PlayerListItem" -> 56
      [] kind = "PlayerAbilities" -> 57
      [] kind = "ServerDifficulty" -> 65
      [] kind = "ResourcePackSend" -> 72

play_writer(ctx, pk) ==
    write_packet(DebugAssertState(ctx, "play_writer", {"Play"}),
                 PlayPacketId(pk.kind), pk.kind, pk.text)

\* Protocol::send_packet
send_packet(ctx, pk) ==
    LET c == [ctx EXCEPT !.err = "",
                         !.h.loginSuccess = @ \/ pk.kind = "LoginSuccess"]
        r == CASE pk.kind = "LoginSuccess" -> login_success(c)
               [] pk.kind = "Disconnect" -> disconnect(c, pk.text)
               [] OTHER -> play_writer(c, pk)
    IN IF r.panic THEN r
       ELSE IF IsErr(r) THEN shutdown_unwrap(r)
       ELSE r

\* Protocol::handle_out_packets, after the queue was drained into `packets`
RECURSIVE send_all(_, _)
send_all(ctx, packets) ==
    IF ctx.panic \/ packets = <<>> THEN ctx
    ELSE send_all(send_packet(ctx, Head(packets)), Tail(packets))

\* handle_out_packets without its `if self.state == State::Disconnected` guard
handle_out_packets_unguarded(ctx) ==
    send_all([ctx EXCEPT !.ch[ctx.id] = <<>>], ctx.ch[ctx.id])

handle_out_packets(ctx) ==
    IF ctx.p.state = "Disconnected" THEN ctx
    ELSE send_all([ctx EXCEPT !.ch[ctx.id] = <<>>], ctx.ch[ctx.id])

-----------------------------------------------------------------------------
(* Server: the registry, the world's players and the queues, as operators  *)
(* on a record sv = [clients, players, ch, cl, panic].                     *)

\* World::remove_player / World::add_player
remove_player(ps, id) == ps \ {id}
add_player(ps, id) == ps \cup {id}

\* Server::remove_client
remove_client(sv, id) ==
    IF id \in sv.clients THEN [sv EXCEPT !.clients = @ \ {id}]
    ELSE IF id \in sv.players
    THEN LET rest == remove_player(sv.players, id)
             q1 == broadcast(sv.ch, rest, Packet("ChatMessage", "left", 0, 0))
             q2 == broadcast(q1, rest, Packet("PlayerListItem", "RemovePlayer", 0, 0))
         IN [sv EXCEPT !.players = rest, !.ch = q2]
    ELSE sv

\* Server::kick_user / Client::kick; sending to a dropped Protocol's queue
\* fails and the unwrap panics
kick_user(sv, id, reason) ==
    IF id \notin sv.clients THEN sv
    ELSE IF prot[id].dropped THEN [sv EXCEPT !.panic = TRUE]
    ELSE [sv EXCEPT !.ch[id] = Append(@, Packet("Disconnect", reason, 0, 0))]

\* the 6x6 ChunkData packets of Client::finish_auth, x outer, z inner
ChunkBurst ==
    [i \in 1 .. 36 |->
        Packet("ChunkData", "", ((i - 1) \div 6) - 3, ((i - 1) % 6) - 3)]

\* finish_auth with the player list entry sent before the position
finish_auth_list_first(sv, id) ==
    [sv EXCEPT !.cl[id].player = TRUE,
               !.ch[id] = @ \o <<Pk("JoinGame"), Pk("SpawnPosition"),
                                  Pk("ServerDifficulty"), Pk("PlayerAbilities")>>
                            \o ChunkBurst
                            \o <<Pk("TimeUpdate"),
                                 Packet("PlayerListItem", "AddPlayer", 0, 0),
                                 Pk("PlayerPositionAndLook")>>]

\* Client::finish_auth
finish_auth(sv, id) ==
    [sv EXCEPT !.cl[id].player = TRUE,
               !.ch[id] = @ \o <<Pk("JoinGame"), Pk("SpawnPosition"),
                                  Pk("ServerDifficulty"), Pk("PlayerAbilities")>>
                            \o ChunkBurst
                            \o <<Pk("TimeUpdate"), Pk("PlayerPositionAndLook"),
                                 Packet("PlayerListItem", "AddPlayer", 0, 0)>>]

\* Client::auth
auth(sv, id, username, uuid) ==
    IF prot[id].dropped THEN [sv EXCEPT !.panic = TRUE]
    ELSE [sv EXCEPT !.cl[id].username = <<username>>,
                    !.cl[id].uuid = IF @ = 0 THEN uuid ELSE @,
                    !.ch[id] = Append(@, Pk("LoginSuccess"))]

\* Server::online_players
online_players(sv) == Cardinality(sv.players)

\* auth_user without its `if self.online_players() >= self.max_players`
auth_user_no_limit(sv, id, username, uuid) ==
    IF id \notin sv.clients THEN [sv EXCEPT !.panic = TRUE]
    ELSE LET a == auth(sv, id, username, uuid) IN
         IF a.panic THEN a
         ELSE LET b == [a EXCEPT !.ch = broadcast(@, a.players,
                                           Packet("ChatMessage", "joined", 0, 0))]
                  c == remove_client(finish_auth(b, id), id)
              IN [c EXCEPT !.players = add_player(@, id)]

\* Server::auth_user
auth_user(sv, id, username, uuid) ==
    IF online_players(sv) >= cfg.max_players
    THEN kick_user(sv, id, "The server is currently full.")
    ELSE IF id \notin sv.clients THEN [sv EXCEPT !.panic = TRUE]
    ELSE LET a == auth(sv, id, username, uuid) IN
         IF a.panic THEN a
         ELSE LET b == [a EXCEPT !.ch = broadcast(@, a.players,
                                           Packet("ChatMessage", "joined", 0, 0))]
                  c == remove_client(finish_auth(b, id), id)
              IN [c EXCEPT !.players = add_player(@, id)]

-----------------------------------------------------------------------------
(* The state machine *)

\* ServerConfig and the extent of the run: how many connections arrive, how
\* far the clock runs and how many data reads connection c gets (reads - c)
Config(enc, thr, maxp, conns, horizon, reads) ==
    [encryption |-> enc, compression_threshold |-> thr, max_players |-> maxp,
     conns |-> conns, horizon |-> horizon, reads |-> reads]

\* From<ServerProperties> for ServerConfig: a negative
\* network-compression-threshold is no compression
compression_threshold_from(n) == IF n < 0 THEN None ELSE Some(n)

\* Several connections on a server that is full at one player, with the clock
\* at rest; or one connection with the clock running, with encryption and
\* compression both on or both off
Configs ==
    {Config(FALSE, compression_threshold_from(-1), 1, MaxConns, 0, MaxReads - 1),
     Config(FALSE, compression_threshold_from(-1), 2, 1, LongClock, MaxReads - 1),
     Config(TRUE, compression_threshold_from(256), 2, 1, LongClock, MaxReads)}

\* the server before the first connection
ServerAtRest ==
    /\ now = 0
    /\ prot = [c \in ClientIds |-> NewProtocol(0)]
    /\ client = [c \in ClientIds |-> NewClient]
    /\ chan = [c \in ClientIds |-> <<>>]
    /\ wire = [c \in ClientIds |-> <<>>]
    /\ clients = {}
    /\ players = {}
    /\ authq = <<>>
    /\ sched = [prots |-> <<>>, rx |-> <<>>, last_keep_alive |-> 0,
                keep_alive_id |-> None, ph |-> "idle", i |-> 0]
    /\ acceptor = [next |-> 0, pending |-> <<>>, legacy |-> FALSE, returned |-> FALSE]
    /\ panicked = {}
    /\ hist = [c \in ClientIds |-> NewHist]

Init ==
    /\ cfg \in Configs
    /\ ServerAtRest
    /\ codec = None
    /\ column = None
    /\ call = None
    /\ locks = None
    /\ chunks = None
    /\ listener = None

\* the connections that were accepted
Born == {c \in ClientIds : c < acceptor.next}

MkCtx(c, failAt, ekind, shutOk) ==
    [id |-> c, p |-> prot[c], cl |-> client[c], w |-> wire[c], aq |-> authq,
     ch |-> chan, h |-> hist[c], nw |-> 0, failAt |-> failAt, ekind |-> ekind,
     shutOk |-> shutOk, err |-> "", panic |-> FALSE]

MkSv == [clients |-> clients, players |-> players, ch |-> chan, cl |-> client,
         panic |-> FALSE]

\* Drop for Protocol, for the ids of ds in order: Server::remove_client
RECURSIVE drop_all(_, _)
drop_all(sv, ds) ==
    IF ds = <<>> THEN sv ELSE drop_all(remove_client(sv, Head(ds)), Tail(ds))

SeqToSet(q) == {q[k] : k \in 1 .. Len(q)}

\* A panic on the scheduler thread unwinds and drops the ProtocolThread, and
\* with it every Protocol of prots and every one still in rx.
\* r is the context the panicking call leaves.
SchedulerPanics(r) ==
    LET c == r.id
        ds == sched.prots \o sched.rx
        sv == drop_all([clients |-> clients, players |-> players, ch |-> r.ch,
                        cl |-> [client EXCEPT ![c] = r.cl], panic |-> FALSE], ds)
    IN /\ prot' = [d \in ClientIds |->
                      LET q == IF d = c THEN r.p ELSE prot[d] IN
                      IF d \in SeqToSet(ds) THEN [q EXCEPT !.dropped = TRUE] ELSE q]
       /\ client' = sv.cl
       /\ chan' = sv.ch
       /\ clients' = sv.clients
       /\ players' = sv.players
       /\ wire' = [wire EXCEPT ![c] = r.w]
       /\ authq' = r.aq
       /\ hist' = [hist EXCEPT ![c] = r.h]
       /\ panicked' = panicked \cup {"scheduler"}
       /\ UNCHANGED sched

\* what a call on connection c leaves, and where the tick goes next
Commit(r, nextSched) ==
    IF r.panic THEN SchedulerPanics(r)
    ELSE /\ prot' = [prot EXCEPT ![r.id] = r.p]
         /\ client' = [client EXCEPT ![r.id] = r.cl]
         /\ chan' = r.ch
         /\ wire' = [wire EXCEPT ![r.id] = r.w]
         /\ authq' = r.aq
         /\ hist' = [hist EXCEPT ![r.id] = r.h]
         /\ sched' = nextSched
         /\ UNCHANGED <<listener, locks, chunks, clients, players, panicked>>

\* the for loop of tick moves to the next Protocol, or tick returns
NextProt ==
    IF sched.i < Len(sched.prots)
    THEN [sched EXCEPT !.i = @ + 1, !.ph = "process"]
    ELSE [sched EXCEPT !.i = 0, !.ph = "idle", !.keep_alive_id = None]

\* the instants at which the scheduler is seen to wake up: around the
\* keep-alive interval and the keep-alive maximum
Instants ==
    {0, KEEP_ALIVE_INTERVAL, KEEP_ALIVE_MAX - 1, KEEP_ALIVE_MAX,
     KEEP_ALIVE_MAX + KEEP_ALIVE_INTERVAL - 1}

\* what one socket read can give connection c
RECURSIVE FrameSeqs(_)
FrameSeqs(n) ==
    IF n = 0 THEN {<<>>}
    ELSE {<<f>> \o q : f \in InFrames, q \in FrameSeqs(n - 1)}

Reads(c) ==
         {[kind |-> k, frames |-> <<>>] : k \in {"WouldBlock", "Reset", "Other", "Closed"}}
    \cup IF hist[c].reads < cfg.reads - c
         THEN {[kind |-> "Data", frames |-> q] :
                  q \in UNION {FrameSeqs(n) : n \in 1 .. MaxFrames}}
         ELSE {}

\* What a new connection sends first: a varint-framed packet; a legacy ping
\* (0xFE) with the fields handle_legacy_ping reads; or a legacy ping that
\* stops short or has another payload or string length
FirstBytes == {"varint", "legacy", "legacy_short"}

\* Protocol::legacy_ping: TRUE after a legacy ping was read and the socket
\* shut down, FALSE for anything else; the unwraps and assert_eq!s of
\* handle_legacy_ping panic on a ping that is not as expected
legacy_ping(first) ==
    [is_legacy |-> first # "varint", panic |-> first = "legacy_short"]

\* main returns when Server::start returns, and the process ends
Running == ~acceptor.returned

\* Server::start: accept, legacy_ping (which ends the loop with `return`),
\* Protocol::new, ps.send(prot)
Accept ==
    /\ Running
    /\ "acceptor" \notin panicked
    /\ acceptor.pending = <<>>
    /\ acceptor.next < cfg.conns
    /\ \E first \in FirstBytes :
       LET id == acceptor.next
           lp == legacy_ping(first)
       IN
       IF lp.panic \/ (~lp.is_legacy /\ "scheduler" \in panicked)
       THEN /\ panicked' = panicked \cup {"acceptor"}
            /\ UNCHANGED <<listener, locks, chunks, call, codec, column, cfg, now, prot, client, chan, wire, clients, players,
                           authq, sched, acceptor, hist>>
       ELSE IF lp.is_legacy
       THEN /\ acceptor' = [acceptor EXCEPT !.legacy = TRUE, !.returned = TRUE]
            /\ UNCHANGED <<listener, locks, chunks, call, codec, column, cfg, now, prot, client, chan, wire, clients, players,
                           authq, sched, panicked, hist>>
       ELSE /\ prot' = [prot EXCEPT ![id] = NewProtocol(now)]
            /\ sched' = [sched EXCEPT !.rx = Append(@, id)]
            /\ acceptor' = [acceptor EXCEPT !.next = id + 1, !.pending = <<id>>]
            /\ UNCHANGED <<listener, locks, chunks, call, codec, column, cfg, now, client, chan, wire, clients, players, authq,
                           panicked, hist>>

\* Server::start: clients.insert(client_id, client)
Register ==
    /\ Running
    /\ "acceptor" \notin panicked
    /\ acceptor.pending # <<>>
    /\ clients' = clients \cup {acceptor.pending[1]}
    /\ acceptor' = [acceptor EXCEPT !.pending = <<>>]
    /\ UNCHANGED <<listener, locks, chunks, call, codec, column, cfg, now, prot, client, chan, wire, players, authq, sched,
                   panicked, hist>>

\* ProtocolThread::tick up to its for loop: retain (dropping the Disconnected
\* Protocols), the new Protocols of rx, the keep-alive id
TickBegin ==
    /\ Running
    /\ "scheduler" \notin panicked
    /\ sched.ph = "idle"
    /\ LET gone == SelectSeq(sched.prots, LAMBDA c : prot[c].state = "Disconnected")
           kept == SelectSeq(sched.prots, LAMBDA c : prot[c].state # "Disconnected")
           sv == drop_all(MkSv, gone)
           ps == kept \o sched.rx
           due == now - sched.last_keep_alive >= KEEP_ALIVE_INTERVAL
       IN /\ prot' = [c \in ClientIds |->
                         IF c \in SeqToSet(gone)
                         THEN [prot[c] EXCEPT !.dropped = TRUE] ELSE prot[c]]
          /\ clients' = sv.clients
          /\ players' = sv.players
          /\ chan' = sv.ch
          /\ sched' = [prots |-> ps, rx |-> <<>>,
                       last_keep_alive |-> IF due THEN now ELSE sched.last_keep_alive,
                       keep_alive_id |-> IF due THEN Some(now * 1000) ELSE None,
                       ph |-> IF ps = <<>> THEN "idle" ELSE "process",
                       i |-> IF ps = <<>> THEN 0 ELSE 1]
    /\ UNCHANGED <<listener, locks, chunks, call, codec, column, cfg, now, client, wire, authq, acceptor, panicked, hist>>

\* tick's for loop: `if prot.is_disconnected() { continue; }`, else
\* prot.process_data()
ProcessData ==
    /\ Running
    /\ "scheduler" \notin panicked
    /\ sched.ph = "process"
    /\ LET c == sched.prots[sched.i] IN
       IF prot[c].state = "Disconnected"
       THEN /\ sched' = NextProt
            /\ UNCHANGED <<listener, locks, chunks, prot, client, chan, wire, clients, players, authq,
                           panicked, hist>>
       ELSE \E rd \in Reads(c), failAt \in 0 .. MaxFrames, ekind \in WriteErrors,
             shutOk \in BOOLEAN :
             Commit(process_data(MkCtx(c, failAt, ekind, shutOk), rd),
                    [sched EXCEPT !.ph = IF sched.keep_alive_id.some
                                         THEN "keepalive" ELSE "out"])
    /\ UNCHANGED <<listener, locks, chunks, call, codec, column, cfg, now, acceptor>>

\* tick's for loop: `if let Some(id) = keep_alive_id { prot.keep_alive(id) }`
KeepAlive ==
    /\ Running
    /\ "scheduler" \notin panicked
    /\ sched.ph = "keepalive"
    /\ LET c == sched.prots[sched.i] IN
       \E failAt \in {0, 1}, ekind \in WriteErrors :
          Commit(keep_alive(MkCtx(c, failAt, ekind, TRUE), sched.keep_alive_id.v),
                 [sched EXCEPT !.ph = "out"])
    /\ UNCHANGED <<listener, locks, chunks, call, codec, column, cfg, now, acceptor>>

\* tick's for loop: prot.handle_out_packets()
HandleOutPackets ==
    /\ Running
    /\ "scheduler" \notin panicked
    /\ sched.ph = "out"
    /\ LET c == sched.prots[sched.i] IN
       \E failAt \in 0 .. MaxFailAt, ekind \in WriteErrors, shutOk \in BOOLEAN :
          Commit(handle_out_packets(MkCtx(c, failAt, ekind, shutOk)), NextProt)
    /\ UNCHANGED <<listener, locks, chunks, call, codec, column, cfg, now, acceptor>>

\* thread::sleep(TICK_DURATION) between two ticks: the clock advances
Sleep ==
    /\ Running
    /\ sched.ph = "idle"
    /\ \E t \in Instants :
          /\ now < t
          /\ t <= cfg.horizon
          /\ now' = t
    /\ UNCHANGED <<listener, locks, chunks, call, codec, column, cfg, prot, client, chan, wire, clients, players, authq, sched,
                   acceptor, panicked, hist>>

\* The authenticator worker: one AuthInfo off the channel, the validator's
\* answer, and on Ok Server::auth_user
Authenticate ==
    /\ Running
    /\ "authenticator" \notin panicked
    /\ authq # <<>>
    /\ authq' = Tail(authq)
    /\ \E ok \in BOOLEAN :
          /\ hist' = [hist EXCEPT
                 ![Head(authq).client_id].full =
                     @ \/ (ok /\ online_players(MkSv) >= cfg.max_players),
                 ![Head(authq).client_id].authFailed = @ \/ ~ok,
                 ![Head(authq).client_id].queuedLogins =
                     LET id == Head(authq).client_id
                         logins(q) == Cardinality({k \in DOMAIN q :
                                                     q[k].kind = "LoginSuccess"})
                         sv == auth_user(MkSv, id, Head(authq).username, 1)
                     IN IF ok /\ logins(sv.ch[id]) > logins(chan[id])
                        THEN Counted(@) ELSE @]
          /\ IF ok
             THEN LET info == Head(authq)
                      sv == auth_user(MkSv, info.client_id, info.username, 1)
                  IN /\ clients' = sv.clients
                     /\ players' = sv.players
                     /\ chan' = sv.ch
                     /\ client' = sv.cl
                     /\ panicked' = IF sv.panic THEN panicked \cup {"authenticator"}
                                    ELSE panicked
             ELSE UNCHANGED <<listener, locks, chunks, clients, players, chan, client, panicked>>
    /\ UNCHANGED <<listener, locks, chunks, call, codec, column, cfg, now, prot, wire, sched, acceptor>>

Next ==
    \/ Accept
    \/ Register
    \/ TickBegin
    \/ ProcessData
    \/ KeepAlive
    \/ HandleOutPackets
    \/ Sleep
    \/ Authenticate

Spec == Init /\ [][Next]_vars

-----------------------------------------------------------------------------
(* The connection at the level of bytes: varints, cipher, zlib, framing *)

VAR_INT_MAX_SIZE == 5
PEEK_LEN == 512
RING_CAPACITY == 32767

\* vec![0; n]
Zeros(n) == [k \in 1..n |-> 0]

\* bytes i..j of s (empty when j < i)
Slice(s, i, j) == [k \in 1..(j - i + 1) |-> s[i + k - 1]]

\* MCWriteExt::write_var_int of an i32: seven bits a byte, least significant
\* first, the shift logical (a negative value takes five bytes)
RECURSIVE write_var_int(_)
write_var_int(v) ==
    LET rest == IF v < 0 THEN (v \div 128) + 33554432 ELSE v \div 128
    IN IF rest = 0 THEN <<v % 128>>
       ELSE <<(v % 128) + 128>> \o write_var_int(rest)

var_int_size(v) == Len(write_var_int(v))

\* MCReadExt::read_var_int on a slice: at most five bytes; the fifth byte
\* gives bits 28..31 of the i32.  Err on the end of the slice or on a
\* continuation bit in the fifth byte.
RECURSIVE read_var_int_from(_, _, _, _)
read_var_int_from(s, i, acc, mul) ==
    IF i > VAR_INT_MAX_SIZE THEN [ok |-> FALSE, v |-> 0, used |-> 0, eof |-> FALSE]
    ELSE IF i > Len(s) THEN [ok |-> FALSE, v |-> 0, used |-> 0, eof |-> TRUE]
    ELSE LET b == s[i]
             low == IF i < VAR_INT_MAX_SIZE THEN (b % 128) * mul
                    ELSE IF b % 16 >= 8
                         THEN (((b % 16) - 8) * mul - 1073741824) - 1073741824
                         ELSE (b % 16) * mul
             v == acc + low
         IN IF b < 128 THEN [ok |-> TRUE, v |-> v, used |-> i, eof |-> FALSE]
            ELSE read_var_int_from(s, i + 1, v, mul * 128)

read_var_int(s) == read_var_int_from(s, 1, 0, 1)

\* MCWriteExt::write_string: the length in bytes as a varint, then the bytes
write_string(s) == write_var_int(Len(s)) \o s

\* AES-128-CFB8 (openssl Crypter), one byte at a time.  The cipher is a
\* stream cipher with a register that moves with every byte: byte k of an
\* update is shifted by the key and by the register's position.
CipherKey == 77

cfb8_encrypt(reg, plain) ==
    [out |-> [k \in 1..Len(plain) |-> (plain[k] + CipherKey + 7 * (reg + k)) % 256],
     reg |-> (reg + Len(plain)) % 256]

cfb8_decrypt(reg, cipher) ==
    [out |-> [k \in 1..Len(cipher) |-> (cipher[k] - CipherKey - 7 * (reg + k)) % 256],
     reg |-> (reg + Len(cipher)) % 256]

\* Adler-32 of the data, as two 16-bit sums
RECURSIVE adler32(_, _, _)
adler32(d, a, b) ==
    IF d = <<>> THEN <<b \div 256, b % 256, a \div 256, a % 256>>
    ELSE LET a2 == (a + d[1]) % 65521 IN adler32(Tail(d), a2, (b + a2) % 65521)

\* ZlibEncoder: a zlib stream of the data - header, one final deflate block
\* (a stored block here), Adler-32 trailer
zlib_encode(d) ==
    <<120, 156, 1, Len(d) % 256, Len(d) \div 256,
      255 - (Len(d) % 256), 255 - (Len(d) \div 256)>> \o d \o adler32(d, 1, 0)

\* ZlibDecoder + read_exact(n): the first n bytes of the inflated data; Err
\* when the stream is not a zlib stream or holds fewer than n bytes
zlib_read_exact(s, n) ==
    LET len == IF Len(s) >= 7 THEN s[4] + 256 * s[5] ELSE 0
        good == /\ Len(s) >= 7
                /\ s[1] = 120 /\ s[2] = 156 /\ s[3] = 1
                /\ s[6] = 255 - s[4] /\ s[7] = 255 - s[5]
                /\ Len(s) >= 7 + len
        data == Slice(s, 8, 7 + len)
    IN IF n < 0 \/ ~good \/ len < n
           \/ (Len(s) >= 11 + len /\ Slice(s, 8 + len, 11 + len) # adler32(data, 1, 0))
       THEN [ok |-> FALSE, v |-> <<>>]
       ELSE [ok |-> TRUE, v |-> Slice(data, 1, n)]

\* The Protocol of one connection with its fields as bytes.  peer: what the
\* client sent and the server has not read yet; out: what the server wrote
\* to the socket.  sent (the client's stream before encryption), frames,
\* read, consumed, dispatched, enqueued, taken and written are history, and
\* so are clear (how many of the bytes read went to the ring as they came,
\* without decryption) and authInfos (AuthInfo sent to the authenticator).
NewCodec(state, compressed, encrypted, threshold, peer, sent, frames) ==
    [state |-> state, compressed |-> compressed, threshold |-> threshold,
     crypter |-> [some |-> encrypted, en |-> 0, de |-> 0],
     peer |-> peer, received_data |-> <<>>, receiver |-> <<>>, out |-> <<>>,
     shut |-> FALSE, closed |-> FALSE, panic |-> FALSE, err |-> FALSE,
     failAt |-> 0, shutOk |-> TRUE, other |-> FALSE,
     sent |-> sent, frames |-> frames, read |-> 0, consumed |-> 0,
     dispatched |-> <<>>, enqueued |-> <<>>, taken |-> <<>>, written |-> <<>>,
     clear |-> 0, authInfos |-> 0]

Flat(parts) ==
    IF Len(parts) = 2 THEN parts[1] \o parts[2]
    ELSE parts[1] \o parts[2] \o parts[3]

\* TcpStream::write_all: Err on a socket that was shut down or is broken
stream_write(c, bytes) ==
    IF c.err THEN c
    ELSE IF c.shut \/ c.failAt = 1 THEN [c EXCEPT !.err = TRUE, !.failAt = 0]
    ELSE [c EXCEPT !.out = @ \o bytes,
                   !.failAt = IF @ > 1 THEN @ - 1 ELSE 0]

shutdown_bytes(c) ==
    [c EXCEPT !.state = "Disconnected", !.shut = TRUE, !.err = ~c.shutOk]

\* the three framings of write_packet
Framing(c, rbuf) ==
    LET length == Len(rbuf) IN
    IF ~c.compressed THEN <<write_var_int(length), rbuf>>
    ELSE IF length < c.threshold
    THEN <<write_var_int(length + 1), write_var_int(0), rbuf>>
    ELSE LET comp_buf == zlib_encode(rbuf) IN
         <<write_var_int(var_int_size(length) + Len(comp_buf)),
           write_var_int(length), comp_buf>>

\* write_packet: with a crypter the frame is appended to a buffer that was
\* created holding rbuf.len() + 10 zero bytes, and the whole buffer is
\* encrypted and written; without one the parts are written one by one
write_framed(c, rbuf, parts) ==
    IF c.crypter.some
    THEN LET buf == Zeros(Len(rbuf) + 10) \o Flat(parts)
             e == cfb8_encrypt(c.crypter.en, buf)
             c1 == [c EXCEPT !.crypter.en = e.reg]
             c2 == stream_write(c1, e.out)
         IN [c2 EXCEPT !.written = Append(@, [rbuf |-> rbuf, plain |-> buf,
                                              compressed |-> c.compressed,
                                              ok |-> ~c2.err])]
    ELSE LET c1 == stream_write(c, parts[1])
             c2 == stream_write(c1, parts[2])
             c3 == IF Len(parts) = 3 THEN stream_write(c2, parts[3]) ELSE c2
         IN [c3 EXCEPT !.written = Append(@, [rbuf |-> rbuf, plain |-> Flat(parts),
                                              compressed |-> c.compressed,
                                              ok |-> ~c3.err])]

write_packet_bytes(c, rbuf) == write_framed(c, rbuf, Framing(c, rbuf))

\* {:#X} of an id
RECURSIVE UpperHex(_)
UpperHex(n) ==
    LET d == n % 16
        ch == IF d < 10 THEN 48 + d ELSE 55 + d
    IN IF n < 16 THEN <<ch>> ELSE UpperHex(n \div 16) \o <<ch>>

\* "Unknown packet: {:#X}"; a negative id prints as its 32 bits
UnknownPacketText(id) ==
    <<85, 110, 107, 110, 111, 119, 110, 32, 112, 97, 99, 107, 101, 116, 58, 32,
      48, 120>> \o
    (IF id >= 0 THEN UpperHex(id)
     ELSE LET r == (id + 1073741824) + 1073741824
          IN UpperHex(8 + (r \div 268435456)) \o
             [k \in 1..7 |-> UpperHex((r \div (16 ^ (7 - k))) % 16)[1]])

\* disconnect at the level of bytes: id, the reason as {"text":reason}
disconnect_bytes(c, reason) ==
    IF c.state \notin {"Login", "Play"} THEN [c EXCEPT !.panic = TRUE]
    ELSE LET json == <<123, 34, 116, 101, 120, 116, 34, 58, 34>> \o reason \o
                     <<34, 125>>
             wbuf == write_var_int(IF c.state = "Login" THEN 0 ELSE 64) \o
                     write_string(json)
             Shutdown(w) == IF w.err THEN w ELSE shutdown_bytes(w)
         IN Shutdown(write_packet_bytes(c, wbuf))

\* chat_message: id 0x02, the text as { "text": "raw_msg" }, position 0
chat_message_bytes(c, raw_msg) ==
    LET json == <<123, 32, 34, 116, 101, 120, 116, 34, 58, 32, 34>> \o raw_msg \o
                <<34, 32, 125>>
    IN write_packet_bytes(c, write_var_int(2) \o write_string(json) \o <<0>>)

\* send_packet for the two packets of the byte model: an Err of the write
\* is answered with shutdown().unwrap()
send_packet_bytes(c, p) ==
    LET Sent(r) ==
            LET res == [r EXCEPT !.taken = Append(@, [p |-> p, wrote |-> Len(r.written)])]
            IN IF res.panic THEN res
               ELSE IF res.err
               THEN LET s == shutdown_bytes([res EXCEPT !.err = FALSE])
                    IN IF s.err THEN [s EXCEPT !.panic = TRUE, !.err = FALSE] ELSE s
               ELSE res
    IN Sent(IF p.kind = "ChatMessage" THEN chat_message_bytes(c, p.text)
            ELSE disconnect_bytes(c, p.text))

RECURSIVE send_all_bytes(_, _)
send_all_bytes(c, packets) ==
    IF packets = <<>> \/ c.panic THEN c
    ELSE send_all_bytes(send_packet_bytes(c, Head(packets)), Tail(packets))

\* the drained batch sent last packet first
handle_out_packets_bytes_reversed(c) ==
    IF c.state = "Disconnected" THEN c
    ELSE send_all_bytes([c EXCEPT !.receiver = <<>>],
                        [k \in 1..Len(c.receiver) |->
                            c.receiver[Len(c.receiver) + 1 - k]])

\* handle_out_packets: nothing when Disconnected; else the receiver is
\* drained and every packet of the batch is sent, in order
handle_out_packets_bytes(c) ==
    IF c.state = "Disconnected" THEN c
    ELSE send_all_bytes([c EXCEPT !.receiver = <<>>], c.receiver)

\* RSA with the server's key pair, as a byte-wise toy: private_decrypt fails
\* on a ciphertext that is empty or starts with 0
RsaKey == 3

rsa_public_encrypt(plain) == [k \in 1..Len(plain) |-> (plain[k] + RsaKey) % 256]

rsa_private_decrypt(ct) ==
    [ok |-> Len(ct) > 0 /\ ct[1] # 0,
     v |-> [k \in 1..Len(ct) |-> (ct[k] + 256 - RsaKey) % 256]]

\* Protocol.verify_token of the byte model
VerifyToken == <<1, 2, 3, 4>>

\* handle_encryption_response at the level of bytes: shared secret and
\* verify token are read from the body and decrypted (every unwrap is a
\* panic); a token or key of the wrong length and a wrong token are answered
\* with disconnect("Hacked client"); else the crypter is installed and
\* Client::handle_login sends the AuthInfo
handle_encryption_response_bytes(c, rbuf) ==
    LET ss_len == read_var_int(rbuf)
        ss_end == ss_len.used + ss_len.v
        rest == Slice(rbuf, ss_end + 1, Len(rbuf))
        vt_len == read_var_int(rest)
        vt_end == vt_len.used + vt_len.v
        vtd == rsa_private_decrypt(Slice(rest, vt_len.used + 1, vt_end))
        ssd == rsa_private_decrypt(Slice(rbuf, ss_len.used + 1, ss_end))
        outcome ==
            IF ~ss_len.ok \/ ss_len.v < 0 \/ Len(rbuf) < ss_end THEN "panic"
            ELSE IF ~vt_len.ok \/ vt_len.v < 0 \/ Len(rest) < vt_end THEN "panic"
            ELSE IF ~vtd.ok THEN "panic"
            ELSE IF Len(vtd.v) # VERIFY_TOKEN_LEN THEN "hacked"
            ELSE IF vtd.v # VerifyToken THEN "hacked"
            ELSE IF ~ssd.ok THEN "panic"
            ELSE IF Len(ssd.v) # ENCRYPTION_KEY_LEN THEN "hacked"
            ELSE "ok"
    IN CASE outcome = "panic" -> [c EXCEPT !.panic = TRUE]
         [] outcome = "hacked" ->
                disconnect_bytes(c, <<72, 97, 99, 107, 101, 100, 32,
                                      99, 108, 105, 101, 110, 116>>)
         [] OTHER -> [c EXCEPT !.crypter = [some |-> TRUE, en |-> 0, de |-> 0],
                               !.authInfos = @ + 1]

\* the Play packets handle_packet knows
PlayIds == {0, 1, 3, 4, 5, 6, 7, 8, 9, 10, 11, 13, 14, 16, 19, 21, 22, 23}

\* handle_packet at the level of bytes.  In Play 0x0A (the arm swings) does
\* nothing and an unknown id is answered with disconnect(..).unwrap(); in
\* Login 0x01 is the Encryption Response and an unknown id is answered with
\* disconnect, an Err of either making the state Disconnected.  The handlers
\* of the other ids and of the other states read fields of the body: they
\* are outside the byte model (other).
handle_packet_bytes(c, rbuf, id) ==
    LET ErrDisconnects(r) ==
            IF r.err /\ ~r.panic THEN [r EXCEPT !.state = "Disconnected", !.err = FALSE]
            ELSE r
        Unwrap(d) == IF d.err THEN [d EXCEPT !.panic = TRUE, !.err = FALSE] ELSE d
    IN
    IF c.state = "Disconnected" THEN c
    ELSE IF c.state = "Login" /\ id = 1
    THEN ErrDisconnects(handle_encryption_response_bytes(c, rbuf))
    ELSE IF \/ c.state \notin {"Login", "Play"}
            \/ c.state = "Login" /\ id = 0
            \/ c.state = "Play" /\ id \in PlayIds \ {10}
    THEN [c EXCEPT !.other = TRUE]
    ELSE IF c.state = "Play" /\ id = 10 THEN c
    ELSE LET Answer(d) == IF c.state = "Login" THEN ErrDisconnects(d) ELSE Unwrap(d)
         IN Answer(disconnect_bytes(c, UnknownPacketText(id)))

\* handle_in_packets: while not Disconnected, peek a length prefix; stop when
\* the ring is empty, the prefix does not decode, or the ring is shorter than
\* the length; else advance by var_int_size(length), read `length` bytes into
\* a zeroed buffer (read() returns what the ring holds), decode and dispatch.
\* A compressed packet ends the call.
RECURSIVE handle_in_packets_bytes(_)
handle_in_packets_bytes(c) ==
    IF c.state = "Disconnected" \/ c.panic \/ c.other THEN c
    ELSE
    LET ring == c.received_data
        buf == Slice(ring, 1, IF Len(ring) < VAR_INT_MAX_SIZE THEN Len(ring)
                              ELSE VAR_INT_MAX_SIZE)
        p == read_var_int(buf)
    IN
    IF Len(ring) = 0 \/ ~p.ok THEN c
    ELSE IF p.v < 0 \/ Len(ring) < p.v THEN c
    ELSE
    LET length == p.v
        adv == var_int_size(length)
        ring1 == Slice(ring, adv + 1, Len(ring))
        read == IF Len(ring1) < length THEN Len(ring1) ELSE length
        rbuf == Slice(ring1, 1, read) \o Zeros(length - read)
        c1 == [c EXCEPT !.received_data = Slice(ring1, read + 1, Len(ring1)),
                        !.consumed = @ + adv + read]
        Dispatch(cc, slice, zipped) ==
            LET id == read_var_int(slice) IN
            IF ~id.ok THEN [cc EXCEPT !.panic = TRUE]
            ELSE handle_packet_bytes(
                     [cc EXCEPT !.dispatched =
                          Append(@, [id |-> id.v,
                                     body |-> Slice(slice, id.used + 1, Len(slice)),
                                     at |-> c.consumed, short |-> read < length,
                                     zipped |-> zipped])],
                     Slice(slice, id.used + 1, Len(slice)), id.v)
        dl == read_var_int(rbuf)
        rslice == Slice(rbuf, dl.used + 1, Len(rbuf))
        zipped == c.compressed /\ dl.ok /\ dl.v # 0
        z == zlib_read_exact(rslice, dl.v)
        Again(d) == IF zipped THEN d ELSE handle_in_packets_bytes(d)
    IN
    IF c.compressed /\ ~dl.ok THEN [c1 EXCEPT !.panic = TRUE]
    ELSE IF zipped /\ ~z.ok THEN [c1 EXCEPT !.panic = TRUE]
    ELSE Again(Dispatch(c1, IF zipped THEN z.v
                            ELSE IF c.compressed THEN rslice ELSE rbuf, zipped))

\* process_data when peek returned len > 0 bytes: read them, decrypt them
\* with the crypter if there is one, write them to the ring (unwrap: a full
\* ring is a panic), handle_in_packets
process_data_bytes(c, len) ==
    LET vec == Slice(c.peer, 1, len)
        d == IF c.crypter.some THEN cfb8_decrypt(c.crypter.de, vec)
             ELSE [out |-> vec, reg |-> 0]
        c1 == [c EXCEPT !.peer = Slice(@, len + 1, Len(@)),
                        !.read = @ + len,
                        !.clear = IF c.crypter.some THEN @ ELSE @ + len,
                        !.crypter.de = d.reg]
    IN IF Len(c.received_data) + len > RING_CAPACITY THEN [c1 EXCEPT !.panic = TRUE]
       ELSE handle_in_packets_bytes([c1 EXCEPT !.received_data = @ \o d.out])

\* process_data when peek returned Ok(0): the peer closed; shutdown, its
\* error dropped
process_data_closed(c) == [shutdown_bytes(c) EXCEPT !.err = FALSE, !.closed = TRUE]

-----------------------------------------------------------------------------
(* One connection in Play, byte by byte *)

WireThreshold == 19       \* compression_threshold of the byte model
MaxRead == 3              \* bytes a socket read returns: 1..MaxRead, or all
MaxEnqueued == 2          \* packets queued for the connection
MaxWriteFailAt == 2       \* the socket write that fails: 1..MaxWriteFailAt

RECURSIVE ClientBytes(_, _)
ClientBytes(fc, frames) ==
    IF frames = <<>> THEN <<>>
    ELSE Flat(Framing(fc, Head(frames))) \o ClientBytes(fc, Tail(frames))

\* what one client sends: frames as the protocol frames them, then raw
\* bytes (tail).  The packet data is the arm swing (id 0x0A) with a body of
\* 0, 2, 127 or threshold - 1 bytes, an id Play does not know, or nothing;
\* the raw bytes are a length prefix with the continuation bit set on the
\* fifth byte, or one that decodes to -1, with a frame after it.
Scenarios ==
    LET Swing == <<10>>
        Swing3 == <<10, 10, 10>>
        UnknownId == <<127>>
        LongSwing == [k \in 1..128 |-> 10]
        BigSwing == [k \in 1..WireThreshold |-> 10]
        S(compressed, encrypted, frames, tail) ==
            [compressed |-> compressed, encrypted |-> encrypted,
             frames |-> frames, tail |-> tail]
    IN {S(FALSE, FALSE, <<Swing3, Swing, UnknownId>>, <<>>),
        S(FALSE, FALSE, <<LongSwing>>, <<>>),
        S(FALSE, FALSE, <<Swing, <<>>, Swing>>, <<>>),
        S(FALSE, FALSE, <<Swing>>, <<255, 255, 255, 255, 255, 1, 10>>),
        S(FALSE, FALSE, <<Swing>>, <<255, 255, 255, 255, 15, 1, 10>>),
        S(FALSE, TRUE, <<Swing3, Swing>>, <<>>),
        S(TRUE, FALSE, <<BigSwing, Swing, Swing3>>, <<>>),
        S(TRUE, TRUE, <<Swing3, Swing>>, <<>>)}

CodecOf(s) ==
    LET plain == ClientBytes([compressed |-> s.compressed,
                              threshold |-> WireThreshold], s.frames) \o s.tail
    IN NewCodec("Play", s.compressed, s.encrypted, WireThreshold,
                IF s.encrypted THEN cfb8_encrypt(0, plain).out ELSE plain,
                plain, s.frames)

\* packets other threads queue for the connection: chat of data length
\* threshold - 1 and threshold, and a kick
OutPackets ==
    {[kind |-> "ChatMessage", text |-> [k \in 1..(WireThreshold - 18) |-> 97]],
     [kind |-> "ChatMessage", text |-> [k \in 1..(WireThreshold - 17) |-> 98]],
     [kind |-> "Disconnect", text |-> <<102, 117, 108, 108>>]}

WireInit ==
    /\ cfg = Config(TRUE, Some(WireThreshold), 2, 1, 0, 0)
    /\ ServerAtRest
    /\ codec \in {CodecOf(s) : s \in Scenarios}
    /\ column = None
    /\ call = None
    /\ locks = None
    /\ chunks = None
    /\ listener = None

Live == codec.state # "Disconnected" /\ ~codec.panic /\ ~codec.other

\* Protocol::process_data on a tick: the socket has len bytes (at most 512
\* are taken), or the peer has closed
ProcessDataBytes ==
    /\ Live
    /\ \E k \in (1..MaxRead) \cup {PEEK_LEN} :
          LET len == IF k < Len(codec.peer) THEN k ELSE Len(codec.peer)
          IN codec' = IF len = 0 THEN process_data_closed(codec)
                      ELSE process_data_bytes(codec, len)
    /\ UNCHANGED <<listener, locks, chunks, cfg, now, prot, client, chan, wire, clients, players, authq,
                   sched, acceptor, panicked, hist, column, call>>

\* Sender::send on the connection's channel, from another thread
EnqueueBytes ==
    /\ ~codec.panic
    /\ Len(codec.enqueued) < MaxEnqueued
    /\ \E p \in OutPackets :
          codec' = [codec EXCEPT !.receiver = Append(@, p),
                                 !.enqueued = Append(@, p)]
    /\ UNCHANGED <<listener, locks, chunks, cfg, now, prot, client, chan, wire, clients, players, authq,
                   sched, acceptor, panicked, hist, column, call>>

\* Protocol::handle_out_packets on a tick; the socket breaks at one of its
\* writes or not at all, and shutdown succeeds or not
HandleOutPacketsBytes ==
    /\ Live
    /\ codec.receiver # <<>>
    /\ \E failAt \in 0..MaxWriteFailAt, shutOk \in BOOLEAN :
          codec' = [handle_out_packets_bytes(
                        [codec EXCEPT !.failAt = failAt, !.shutOk = shutOk])
                    EXCEPT !.failAt = 0, !.shutOk = TRUE, !.err = FALSE]
    /\ UNCHANGED <<listener, locks, chunks, cfg, now, prot, client, chan, wire, clients, players, authq,
                   sched, acceptor, panicked, hist, column, call>>

WireNext ==
    \/ ProcessDataBytes
    \/ EnqueueBytes
    \/ HandleOutPacketsBytes

WireSpec == WireInit /\ [][WireNext]_vars

(***************************************************************************)
(* One connection in Login, byte by byte, from the Encryption Response on. *)
(* The client encrypts everything it sends after the Encryption Response,  *)
(* its cipher starting afresh.                                             *)
(***************************************************************************)
\* the data of an Encryption Response: id 1, the shared secret and the
\* verify token, each with its length and encrypted for the server
EncryptionResponse(secret, token) ==
    <<1>> \o write_string(rsa_public_encrypt(secret))
          \o write_string(rsa_public_encrypt(token))

\* what one client sends: an Encryption Response (a good one, one with a
\* verify token that is not the server's, one with a short key), then
\* nothing or frames in the encrypted part of the stream
LoginScenarios ==
    LET key == [k \in 1..ENCRYPTION_KEY_LEN |-> 16 + k]
    IN {[response |-> r, after |-> a] :
           r \in {EncryptionResponse(key, VerifyToken),
                  EncryptionResponse(key, <<1, 2, 3, 5>>),
                  EncryptionResponse(<<17, 18>>, VerifyToken)},
           a \in {<<>>, <<<<127>>>>, <<<<1, 0, 0>>, <<127>>>>}}

LoginCodecOf(s) ==
    LET fc == [compressed |-> FALSE, threshold |-> WireThreshold]
        head == ClientBytes(fc, <<s.response>>)
        tail == ClientBytes(fc, s.after)
    IN NewCodec("Login", FALSE, FALSE, WireThreshold,
                head \o cfb8_encrypt(0, tail).out, head \o tail,
                <<s.response>> \o s.after)

WireLoginInit ==
    /\ cfg = Config(TRUE, Some(WireThreshold), 2, 1, 0, 0)
    /\ ServerAtRest
    /\ codec \in {LoginCodecOf(s) : s \in LoginScenarios}
    /\ column = None
    /\ call = None
    /\ locks = None
    /\ chunks = None
    /\ listener = None

WireLoginSpec == WireLoginInit /\ [][WireNext]_vars

(***************************************************************************)
(* Chunk columns and their protocol-47 serialization.  A column holds      *)
(* SECTION_COUNT optional sections; a section holds one byte per block of  *)
(* block type and one nibble per block of meta data, block light and sky   *)
(* light.  Byte sequences are 1-based: element k is the source's index     *)
(* k - 1.                                                                  *)
(***************************************************************************)
WIDTH == 16

SECTION_COUNT == 16

AREA == WIDTH * WIDTH

SECTION_BLOCK_COUNT == AREA * WIDTH

\* the function f with domain 1..n as a sequence value
Bytes(f) == <<>> \o f

\* a bitwise operation on two unsigned values of n bits, bit by bit
RECURSIVE Bitwise(_, _, _, _)
Bitwise(op, a, b, n) ==
    IF n = 0 THEN 0
    ELSE LET x == a % 2
             y == b % 2
             bit == CASE op = "and" -> x * y
                      [] op = "or" -> IF x + y > 0 THEN 1 ELSE 0
                      [] op = "andnot" -> (1 - x) * y
         IN bit + 2 * Bitwise(op, a \div 2, b \div 2, n - 1)

\* the three operations on nibbles, tabulated, and on bytes
NibbleTable == [op \in {"and", "or", "andnot"} |->
                   [a \in 0..15 |-> [b \in 0..15 |-> Bitwise(op, a, b, 4)]]]

ByteOp(op, a, b) ==
    16 * NibbleTable[op][a \div 16][b \div 16] + NibbleTable[op][a % 16][b % 16]

\* u8 shifts: bits shifted out are lost
shl4(x) == (x * 16) % 256

shr4(x) == x \div 16

\* The section a chunk map generates (block type 3, no meta, no light, full
\* sky light) for gen = 0, and otherwise a section of the test generator:
\* every byte value occurs in every array, neighbours differ, and the
\* contents depend on the section index i.
Section(gen, i) ==
    LET half == SECTION_BLOCK_COUNT \div 2
    IN IF gen = 0
       THEN [block_types |-> Bytes([k \in 1..SECTION_BLOCK_COUNT |-> 3]),
             block_metas |-> Bytes([k \in 1..half |-> 0]),
             block_light |-> Bytes([k \in 1..half |-> 0]),
             block_sky_light |-> Bytes([k \in 1..half |-> 255])]
       ELSE [block_types |-> Bytes([k \in 1..SECTION_BLOCK_COUNT |->
                                (k * 7 + (k \div 256) * 13 + gen * 31 + i) % 256]),
             block_metas |-> Bytes([k \in 1..half |->
                                (255 - ((k * 11 + (k \div 128) * 5 + gen * 17 + i) % 256))]),
             block_light |-> Bytes([k \in 1..half |-> (k * 3 + gen + i) % 256]),
             block_sky_light |-> Bytes([k \in 1..half |-> (k * 5 + 2 * gen + i) % 256])]

\* Chunk: the column with the sections of `present` (indices 0..15), and a
\* biome map
Chunk(present, gen) ==
    [data |-> [sections |-> [k \in 1..SECTION_COUNT |->
                                IF (k - 1) \in present THEN Some(Section(gen, k - 1))
                                ELSE None]],
     biome_map |-> Bytes([k \in 1..AREA |-> (k + gen) % 256])]

\* sections.iter().filter_map(|x| x.as_ref()): the present sections in order
present_sections(sections) ==
    LET some == SelectSeq(Bytes(sections), LAMBDA s : s.some)
    IN [k \in 1..Len(some) |-> some[k].v]

RECURSIVE primary_bit_mask_from(_, _, _)
primary_bit_mask_from(sections, i, bit) ==
    IF i = SECTION_COUNT THEN bit
    ELSE primary_bit_mask_from(sections, i + 1,
             IF sections[i + 1].some THEN Bitwise("or", bit, (2 ^ i) % 65536, 16) ELSE bit)

get_primary_bit_mask(column_data) == primary_bit_mask_from(column_data.sections, 0, 0)

get_num_sections(column_data) == Len(present_sections(column_data.sections))

\* the byte sequences parts[lo], .., parts[hi - 1] written one after another
RECURSIVE write_all_parts(_, _, _)
write_all_parts(parts, lo, hi) ==
    IF hi <= lo THEN <<>>
    ELSE IF hi = lo + 1 THEN parts[lo]
    ELSE LET mid == (lo + hi) \div 2
         IN write_all_parts(parts, lo, mid) \o write_all_parts(parts, mid, hi)

write_block_info_fallback(sections) ==
    LET some == present_sections(sections)
        tmp(section, i) ==
            LET block_type1 == section.block_types[i * 2 + 1]
                block_type2 == section.block_types[i * 2 + 2]
                block_metas == section.block_metas[i + 1]
            IN << ByteOp("or", shl4(block_type1), ByteOp("and", block_metas, 15)),
                  shr4(block_type1),
                  ByteOp("or", shl4(block_type2), shr4(block_metas)),
                  shr4(block_type2) >>
        one(section) ==
            write_all_parts([i \in 0..((SECTION_BLOCK_COUNT \div 2) - 1) |-> tmp(section, i)],
                            0, SECTION_BLOCK_COUNT \div 2)
    IN write_all_parts([k \in 1..Len(some) |-> one(some[k])], 1, Len(some) + 1)

\* Vector operations.  A vector is a sequence of 16 (128-bit) or 32
\* (256-bit) bytes, lowest byte first; the x86 unpack operations work on
\* each 128-bit lane separately.
load(array, index, size) == Bytes([k \in 1..size |-> array[index + k]])

set1_epi8(x, size) == Bytes([k \in 1..size |-> x])

and_si(a, b) == Bytes([k \in 1..Len(a) |-> ByteOp("and", a[k], b[k])])

andnot_si(a, b) == Bytes([k \in 1..Len(a) |-> ByteOp("andnot", a[k], b[k])])

or_si(a, b) == Bytes([k \in 1..Len(a) |-> ByteOp("or", a[k], b[k])])

\* shifts of the 16-bit words (low byte first) by four bits
srli_epi16_4(v) ==
    Bytes([k \in 1..Len(v) |->
        IF k % 2 = 1 THEN ((v[k] + 256 * v[k + 1]) \div 16) % 256
        ELSE (v[k - 1] + 256 * v[k]) \div 4096])

slli_epi16_4(v) ==
    Bytes([k \in 1..Len(v) |->
        IF k % 2 = 1 THEN (((v[k] + 256 * v[k + 1]) * 16) % 65536) % 256
        ELSE (((v[k - 1] + 256 * v[k]) * 16) % 65536) \div 256])

unpacklo_epi8(a, b) ==
    Bytes([k \in 1..Len(a) |->
        LET lane == (k - 1) \div 16
            j == (k - 1) % 16
        IN IF j % 2 = 0 THEN a[16 * lane + (j \div 2) + 1] ELSE b[16 * lane + (j \div 2) + 1]])

unpackhi_epi8(a, b) ==
    Bytes([k \in 1..Len(a) |->
        LET lane == (k - 1) \div 16
            j == (k - 1) % 16
        IN IF j % 2 = 0 THEN a[16 * lane + 8 + (j \div 2) + 1]
           ELSE b[16 * lane + 8 + (j \div 2) + 1]])

\* the meta vector left in memory order
permute4x64_identity(v, imm) == v

\* _mm256_permute4x64_epi64: 64-bit word q of the result is word
\* (imm >> 2q) & 3 of v
permute4x64_epi64(v, imm) ==
    Bytes([k \in 1..32 |->
        LET q == (k - 1) \div 8
        IN v[8 * ((imm \div (4 ^ q)) % 4) + ((k - 1) % 8) + 1]])

\* _mm256_permute2x128_si256: each half of the result is chosen by a nibble
\* of imm: 0, 1 are the halves of a, 2, 3 those of b, bit 3 gives zero
permute2x128_si256(a, b, imm) ==
    Bytes([k \in 1..32 |->
        LET ctl == IF k <= 16 THEN imm % 16 ELSE (imm \div 16) % 16
            j == ((k - 1) % 16) + 1
        IN IF ctl >= 8 THEN 0
           ELSE CASE ctl % 4 = 0 -> a[j]
                  [] ctl % 4 = 1 -> a[16 + j]
                  [] ctl % 4 = 2 -> b[j]
                  [] ctl % 4 = 3 -> b[16 + j]])

\* the shared body of the SSE2 (size 16) and AVX2 (size 32) loops up to the
\* four output vectors
x86_step(section, i, VECTOR_SIZE, in_metas) ==
    LET STEP_SIZE == 2 * VECTOR_SIZE
        low_mask == set1_epi8(15, VECTOR_SIZE)
        in_types1 == load(section.block_types, i * STEP_SIZE, VECTOR_SIZE)
        in_types2 == load(section.block_types, i * STEP_SIZE + VECTOR_SIZE, VECTOR_SIZE)
        in_metas_shifted == srli_epi16_4(in_metas)
        metas1 == and_si(unpacklo_epi8(in_metas, in_metas_shifted), low_mask)
        metas2 == and_si(unpackhi_epi8(in_metas, in_metas_shifted), low_mask)
        types_shift_right1 == and_si(low_mask, srli_epi16_4(in_types1))
        types_shift_left1 == andnot_si(low_mask, slli_epi16_4(in_types1))
        types_with_metas1 == or_si(types_shift_left1, metas1)
        types_shift_right2 == and_si(low_mask, srli_epi16_4(in_types2))
        types_shift_left2 == andnot_si(low_mask, slli_epi16_4(in_types2))
        types_with_metas2 == or_si(types_shift_left2, metas2)
    IN [first |-> unpacklo_epi8(types_with_metas1, types_shift_right1),
        second |-> unpackhi_epi8(types_with_metas1, types_shift_right1),
        third |-> unpacklo_epi8(types_with_metas2, types_shift_right2),
        fourth |-> unpackhi_epi8(types_with_metas2, types_shift_right2)]

write_block_info_sse2(sections) ==
    LET some == present_sections(sections)
        STEP_SIZE == 32
        write_buf(section, i) ==
            LET v == x86_step(section, i, 16,
                              load(section.block_metas, i * (STEP_SIZE \div 2), 16))
            IN v.first \o v.second \o v.third \o v.fourth
        one(section) ==
            write_all_parts([i \in 0..((SECTION_BLOCK_COUNT \div STEP_SIZE) - 1) |->
                                write_buf(section, i)],
                            0, SECTION_BLOCK_COUNT \div STEP_SIZE)
    IN write_all_parts([k \in 1..Len(some) |-> one(some[k])], 1, Len(some) + 1)

write_block_info_avx2(sections) ==
    LET some == present_sections(sections)
        STEP_SIZE == 64
        write_buf(section, i) ==
            LET v == x86_step(section, i, 32,
                              permute4x64_epi64(
                                  load(section.block_metas, i * (STEP_SIZE \div 2), 32), 216))
            IN permute2x128_si256(v.first, v.second, 32)
               \o permute2x128_si256(v.first, v.second, 49)
               \o permute2x128_si256(v.third, v.fourth, 32)
               \o permute2x128_si256(v.third, v.fourth, 49)
        one(section) ==
            write_all_parts([i \in 0..((SECTION_BLOCK_COUNT \div STEP_SIZE) - 1) |->
                                write_buf(section, i)],
                            0, SECTION_BLOCK_COUNT \div STEP_SIZE)
    IN write_all_parts([k \in 1..Len(some) |-> one(some[k])], 1, Len(some) + 1)

\* NEON: byte-wise shifts, vzipq_u8 interleaves two vectors into a pair,
\* vst2q_u8 stores a pair of vectors interleaved
write_block_info_neon(sections) ==
    LET some == present_sections(sections)
        STEP_SIZE == 32
        vshrq_n_u8_4(v) == Bytes([k \in 1..16 |-> shr4(v[k])])
        vshlq_n_u8_4(v) == Bytes([k \in 1..16 |-> shl4(v[k])])
        vzipq_u8(a, b) ==
            << Bytes([k \in 1..16 |-> IF k % 2 = 1 THEN a[(k + 1) \div 2] ELSE b[k \div 2]]),
               Bytes([k \in 1..16 |-> IF k % 2 = 1 THEN a[8 + (k + 1) \div 2]
                                      ELSE b[8 + k \div 2]]) >>
        vst2q_u8(v0, v1) ==
            Bytes([k \in 1..32 |-> IF k % 2 = 1 THEN v0[(k + 1) \div 2] ELSE v1[k \div 2]])
        write_buf(section, i) ==
            LET low_mask == set1_epi8(15, 16)
                in_types1 == load(section.block_types, i * STEP_SIZE, 16)
                in_types2 == load(section.block_types, (i * STEP_SIZE) + (STEP_SIZE \div 2), 16)
                in_metas128 == load(section.block_metas, i * (STEP_SIZE \div 2), 16)
                in_metas128_shifted == vshrq_n_u8_4(in_metas128)
                in_metas128_low == and_si(in_metas128, low_mask)
                metas == vzipq_u8(in_metas128_low, in_metas128_shifted)
                types_shift_right1 == vshrq_n_u8_4(in_types1)
                types_shift_left1 == vshlq_n_u8_4(in_types1)
                types_with_metas1 == or_si(types_shift_left1, metas[1])
                types_shift_right2 == vshrq_n_u8_4(in_types2)
                types_shift_left2 == vshlq_n_u8_4(in_types2)
                types_with_metas2 == or_si(types_shift_left2, metas[2])
            IN vst2q_u8(types_with_metas1, types_shift_right1)
               \o vst2q_u8(types_with_metas2, types_shift_right2)
        one(section) ==
            write_all_parts([i \in 0..((SECTION_BLOCK_COUNT \div STEP_SIZE) - 1) |->
                                write_buf(section, i)],
                            0, SECTION_BLOCK_COUNT \div STEP_SIZE)
    IN write_all_parts([k \in 1..Len(some) |-> one(some[k])], 1, Len(some) + 1)

\* The machines a build can run on: the target architecture and what the
\* run-time feature detection answers.
Cpus ==
    { [arch |-> "x86_64", avx2 |-> TRUE, sse2 |-> TRUE, neon |-> FALSE],
      [arch |-> "x86_64", avx2 |-> FALSE, sse2 |-> TRUE, neon |-> FALSE],
      [arch |-> "x86", avx2 |-> FALSE, sse2 |-> FALSE, neon |-> FALSE],
      [arch |-> "aarch64", avx2 |-> FALSE, sse2 |-> FALSE, neon |-> TRUE] }

write_block_info(sections, cpu) ==
    IF cpu.arch \in {"x86", "x86_64"} /\ cpu.avx2 THEN write_block_info_avx2(sections)
    ELSE IF cpu.arch \in {"x86", "x86_64"} /\ cpu.sse2 THEN write_block_info_sse2(sections)
    ELSE IF cpu.arch = "aarch64" /\ cpu.neon THEN write_block_info_neon(sections)
    ELSE write_block_info_fallback(sections)

\* the size without the biome map
serialized_size_no_biomes(chunk) == get_num_sections(chunk.data) * SECTION_BLOCK_COUNT * 3

serialized_size(chunk) == get_num_sections(chunk.data) * SECTION_BLOCK_COUNT * 3 + AREA

\* serialize with the sky light before the block light
serialize_sky_light_first(chunk, cpu) ==
    LET some == present_sections(chunk.data.sections)
    IN write_var_int(serialized_size(chunk))
       \o write_block_info(chunk.data.sections, cpu)
       \o write_all_parts([k \in 1..Len(some) |-> some[k].block_sky_light], 1, Len(some) + 1)
       \o write_all_parts([k \in 1..Len(some) |-> some[k].block_light], 1, Len(some) + 1)
       \o chunk.biome_map

serialize(chunk, cpu) ==
    LET some == present_sections(chunk.data.sections)
    IN write_var_int(serialized_size(chunk))
       \o write_block_info(chunk.data.sections, cpu)
       \o write_all_parts([k \in 1..Len(some) |-> some[k].block_light], 1, Len(some) + 1)
       \o write_all_parts([k \in 1..Len(some) |-> some[k].block_sky_light], 1, Len(some) + 1)
       \o chunk.biome_map

(***************************************************************************)
(* The serializer applied to chunk columns.  column.chunk is the input,    *)
(* column.call the function that was applied ("none" before any call),     *)
(* column.cpu the machine and column.out the bytes the call wrote.         *)
(***************************************************************************)
\* the inputs: which sections are present, and the generator of the contents
Columns ==
    { <<{}, 1>>, <<{0}, 0>>, <<{3}, 1>>, <<{15}, 2>>, <<{7, 8}, 1>>, <<{0, 3, 15}, 2>>,
      <<0..15, 1>> }

ChunkInit ==
    /\ cfg = Config(TRUE, Some(256), 20, 1, 0, 0)
    /\ ServerAtRest
    /\ codec = None
    /\ call = None
    /\ locks = None
    /\ chunks = None
    /\ listener = None
    /\ \E c \in Columns, cpu \in Cpus :
          column = [chunk |-> Chunk(c[1], c[2]), present |-> c[1], cpu |-> cpu,
                    call |-> "none", out |-> <<>>]

ChunkUnchanged ==
    UNCHANGED <<listener, locks, chunks, cfg, now, prot, client, chan, wire, clients, players, authq,
                sched, acceptor, panicked, hist, codec, call>>

\* a direct call of one variant, as the tests and benchmarks make it, on a
\* machine that has the variant's target feature
CallVariant ==
    /\ column.call = "none"
    /\ \E f \in {"fallback", "sse2", "avx2", "neon"} :
          /\ f = "sse2" => column.cpu.sse2
          /\ f = "avx2" => column.cpu.avx2
          /\ f = "neon" => column.cpu.neon
          /\ column' = [column EXCEPT
                !.call = f,
                !.out = CASE f = "fallback" ->
                               write_block_info_fallback(column.chunk.data.sections)
                          [] f = "sse2" -> write_block_info_sse2(column.chunk.data.sections)
                          [] f = "avx2" -> write_block_info_avx2(column.chunk.data.sections)
                          [] f = "neon" -> write_block_info_neon(column.chunk.data.sections)]
    /\ ChunkUnchanged

CallWriteBlockInfo ==
    /\ column.call = "none"
    /\ column' = [column EXCEPT
          !.call = "write_block_info",
          !.out = write_block_info(column.chunk.data.sections, column.cpu)]
    /\ ChunkUnchanged

\* Protocol::chunk_data serializes the chunk into the packet buffer
CallSerialize ==
    /\ column.call = "none"
    /\ column' = [column EXCEPT
          !.call = "serialize",
          !.out = serialize(column.chunk, column.cpu)]
    /\ ChunkUnchanged

ChunkNext == CallVariant \/ CallWriteBlockInfo \/ CallSerialize

ChunkSpec == ChunkInit /\ [][ChunkNext]_vars

(***************************************************************************)
(* auth::java_hex_digest: the server id of the session request, Minecraft's *)
(* signed hexadecimal form of a SHA-1 digest.  A digest is a sequence of   *)
(* DIGEST_LEN bytes (element k is the source's index k - 1), a string a    *)
(* sequence of one-character strings.  The digest is wider than the        *)
(* integers at hand, so all arithmetic on it is done byte by byte.         *)
(***************************************************************************)
DIGEST_LEN == 20

\* twos_compliment_fallback: from the last byte to the first,
\* (!x).overflowing_add(carry)
RECURSIVE twos_compliment_fallback_from(_, _, _)
twos_compliment_fallback_from(arr, i, carry) ==
    IF i = 0 THEN arr
    ELSE LET sum == (255 - arr[i]) + (IF carry THEN 1 ELSE 0)
         IN twos_compliment_fallback_from([arr EXCEPT ![i] = sum % 256], i - 1, sum >= 256)

twos_compliment_fallback(arr) == twos_compliment_fallback_from(arr, Len(arr), TRUE)

\* twos_compliment_movbe: the digest as big-endian words of 64, 64 and 32
\* bits, lowest word first: neg, then sbb from zero twice.  Each is
\* 0 - word - CF, and CF afterwards is the borrow.
twos_compliment_movbe(arr) ==
    LET RECURSIVE sbb(_, _, _, _)
        sbb(a, lo, i, cf) ==
            IF i < lo THEN [arr |-> a, cf |-> cf]
            ELSE LET d == 0 - a[i] - cf
                 IN sbb([a EXCEPT ![i] = (d + 256) % 256], lo, i - 1, IF d < 0 THEN 1 ELSE 0)
        w1 == sbb(arr, 13, 20, 0)
        w2 == sbb(w1.arr, 5, 12, w1.cf)
        w3 == sbb(w2.arr, 1, 4, w2.cf)
    IN w3.arr

\* protocol/authenticator.rs, twos_compliment: invert, and add one while
\* the carry lasts
authenticator_twos_compliment(arr) ==
    LET RECURSIVE loop(_, _, _)
        loop(a, i, carry) ==
            IF i = 0 THEN a
            ELSE LET inv == 255 - a[i]
                 IN IF carry THEN loop([a EXCEPT ![i] = (inv + 1) % 256], i - 1, inv = 255)
                    ELSE loop([a EXCEPT ![i] = inv], i - 1, FALSE)
    IN loop(arr, Len(arr), TRUE)

HexChars == <<"0", "1", "2", "3", "4", "5", "6", "7", "8", "9", "a", "b", "c", "d", "e", "f">>

\* java_hex_digest as built with `variant` of twos_compliment
java_hex_digest(input, variant) ==
    LET hex(byte) == HexChars[byte + 1]
        negative == (input[1] \div 128) % 2 = 1
        arr == IF ~negative THEN input
               ELSE CASE variant = "fallback" -> twos_compliment_fallback(input)
                      [] variant = "movbe" -> twos_compliment_movbe(input)
                      [] variant = "authenticator" -> authenticator_twos_compliment(input)
        sign == IF negative THEN <<"-">> ELSE <<>>
        nonzero == {k \in 1..Len(arr) : arr[k] # 0}
        RECURSIVE rest(_)
        rest(k) == IF k > Len(arr) THEN <<>>
                   ELSE <<hex(arr[k] \div 16), hex(arr[k] % 16)>> \o rest(k + 1)
    IN IF nonzero = {} THEN sign
       ELSE LET first == CHOOSE k \in nonzero : \A j \in nonzero : k <= j
                b == arr[first]
            IN sign \o (IF b >= 16 THEN <<hex(b \div 16)>> ELSE <<>>)
                    \o <<hex(b % 16)>> \o rest(first + 1)

\* sha1 of "Notch", "jeb_" and "simon", the digests of the unit tests
TestDigests ==
    { <<78, 209, 244, 107, 190, 4, 188, 117, 107, 203, 23, 192, 199, 206,
        62, 70, 50, 240, 106, 72>>,
      <<131, 98, 164, 255, 187, 62, 207, 239, 101, 162, 132, 160, 74, 60,
        232, 63, 212, 177, 215, 63>>,
      <<8, 142, 22, 161, 1, 146, 119, 177, 93, 88, 250, 240, 84, 30, 17,
        145, 14, 183, 86, 246>> }

\* the digests tried: `zeros` leading zero bytes, then the byte `lead`, then
\* `fill` up to the last byte, which is `last`
Digests ==
    { [k \in 1..DIGEST_LEN |->
          IF k <= zeros THEN 0
          ELSE IF k = zeros + 1 THEN lead
          ELSE IF k = DIGEST_LEN THEN last
          ELSE fill] :
      zeros \in {0, 1, 2, 18, 19, 20}, lead \in {1, 15, 16, 127, 128, 129, 255},
      fill \in {0, 90, 255}, last \in {0, 1, 255} }
    \cup TestDigests

DigestInit ==
    /\ locks = None
    /\ chunks = None
    /\ listener = None
    /\ cfg = Config(TRUE, Some(256), 20, 1, 0, 0)
    /\ ServerAtRest
    /\ codec = None
    /\ column = None
    /\ call \in {[input |-> d, variant |-> v, done |-> FALSE, out |-> <<>>] :
                    d \in Digests, v \in {"fallback", "movbe", "authenticator"}}

\* Protocol::handle_encryption_response: auth::java_hex_digest(hash)
CallJavaHexDigest ==
    /\ ~call.done
    /\ call' = [call EXCEPT !.done = TRUE, !.out = java_hex_digest(call.input, call.variant)]
    /\ UNCHANGED <<listener, locks, chunks, cfg, now, prot, client, chan, wire, clients, players, authq,
                   sched, acceptor, panicked, hist, codec, column>>

DigestSpec == DigestInit /\ [][CallJavaHexDigest]_vars

(***************************************************************************)
(* mc_ext: positions packed into one i64.  An i64 is modelled bit by bit, *)
(* as a function from the bit positions 0..63 (0 the lowest) to {0, 1},   *)
(* because it is wider than the integers at hand; coordinates are small   *)
(* enough to be integers.                                                  *)
(***************************************************************************)
\* an integer n with -2^30 <= n < 2^30 as i64
to_i64(n) == [i \in 0..63 |-> IF i < 30 THEN ((n % 1073741824) \div (2 ^ i)) % 2
                              ELSE IF n < 0 THEN 1 ELSE 0]

\* an i64 that fits 31 bits as an integer
from_i64(a) == LET RECURSIVE low(_)
                   low(i) == IF i = 30 THEN 0 ELSE a[i] * (2 ^ i) + low(i + 1)
               IN low(0) - a[63] * 1073741824

i64_and(a, b) == [i \in 0..63 |-> a[i] * b[i]]

i64_or(a, b) == [i \in 0..63 |-> IF a[i] + b[i] > 0 THEN 1 ELSE 0]

\* <<: the bits shifted out are lost
i64_shl(a, k) == [i \in 0..63 |-> IF i >= k THEN a[i - k] ELSE 0]

\* >> of a signed value: the sign bit is shifted in
i64_shr(a, k) == [i \in 0..63 |-> IF i + k <= 63 THEN a[i + k] ELSE a[63]]

\* write_i64::<BigEndian> and read_i64::<BigEndian>: eight bytes, highest first
write_long(a) ==
    LET RECURSIVE byte(_, _)
        byte(k, j) == IF j = 8 THEN 0 ELSE a[8 * (8 - k) + j] * (2 ^ j) + byte(k, j + 1)
    IN [k \in 1..8 |-> byte(k, 0)]

read_long(buf) == [i \in 0..63 |-> (buf[8 - (i \div 8)] \div (2 ^ (i % 8))) % 2]

write_position(x, y, z) ==
    LET value == i64_or(i64_or(i64_shl(i64_and(to_i64(x), to_i64(67108863)), 38),
                               i64_shl(i64_and(to_i64(y), to_i64(4095)), 26)),
                        i64_and(to_i64(z), to_i64(67108863)))
    IN write_long(value)

read_position(buf) ==
    LET value == read_long(buf)
    IN << from_i64(i64_shr(value, 38)),
          from_i64(i64_and(i64_shr(value, 26), to_i64(4095))),
          from_i64(i64_shr(i64_shl(value, 38), 38)) >>

\* the coordinates tried: the ends of the 26-bit and 12-bit signed ranges,
\* values around zero, the spawn position, and one value beyond each end
PosXZ == {-33554433, -33554432, -33554431, -300, -1, 0, 1, 10, 33554431, 33554432}

PosY == {-2049, -2048, -2047, -65, -1, 0, 1, 65, 2047, 2048}

PositionInit ==
    /\ locks = None
    /\ chunks = None
    /\ listener = None
    /\ cfg = Config(TRUE, Some(256), 20, 1, 0, 0)
    /\ ServerAtRest
    /\ codec = None
    /\ column = None
    /\ call \in {[x |-> x, y |-> y, z |-> z, step |-> "new", buf |-> <<>>, read |-> <<>>] :
                    x \in PosXZ, y \in PosY, z \in PosXZ}

WritePosition ==
    /\ call.step = "new"
    /\ call' = [call EXCEPT !.step = "written", !.buf = write_position(call.x, call.y, call.z)]
    /\ UNCHANGED <<listener, locks, chunks, cfg, now, prot, client, chan, wire, clients, players, authq,
                   sched, acceptor, panicked, hist, codec, column>>

ReadPosition ==
    /\ call.step = "written"
    /\ call' = [call EXCEPT !.step = "read", !.read = read_position(call.buf)]
    /\ UNCHANGED <<listener, locks, chunks, cfg, now, prot, client, chan, wire, clients, players, authq,
                   sched, acceptor, panicked, hist, codec, column>>

PositionNext == WritePosition \/ ReadPosition

PositionSpec == PositionInit /\ [][PositionNext]_vars

-----------------------------------------------------------------------------
(* The threads at the level of their lock acquisitions *)

LockConns == 2            \* connections 1..LockConns
MaxChats == 1             \* chat messages handled for a connection
MaxLoginStarts == 2       \* Login Start packets handled for a connection

Threads == {"acceptor", "scheduler", "authenticator"}
LockIds == 1..LockConns

\* Server.clients, the default world, ChunkMap.chunks, and the RwLock of
\* every Player and Client
ClientsLock == <<"clients", 0>>
WorldLock == <<"world", 0>>
ChunksLock == <<"chunks", 0>>
PlayerLock(c) == <<"player", c>>
ClientLock(c) == <<"client", c>>
Locks == {ClientsLock, WorldLock, ChunksLock} \cup
         {PlayerLock(c) : c \in LockIds} \cup {ClientLock(c) : c \in LockIds}

\* the steps of a thread: read() and write() of a lock, the drop of a guard,
\* and what is done to the registry, the world and the channels in between
R(l) == [op |-> "r", l |-> l, c |-> 0]
W(l) == [op |-> "w", l |-> l, c |-> 0]
U(l) == [op |-> "u", l |-> l, c |-> 0]
E(what, c) == [op |-> what, l |-> <<"none", 0>>, c |-> c]

\* Server::broadcast: foreach_player under the world's read lock; for every
\* player player.read(), client.read(), send, the guards dropped in reverse
foreach_player_ops(in_world) ==
    LET RECURSIVE Each(_)
        Each(ps) ==
            IF ps = {} THEN <<>>
            ELSE LET p == CHOOSE q \in ps : \A o \in ps : q <= o
                 IN <<R(PlayerLock(p)), R(ClientLock(p)),
                      U(ClientLock(p)), U(PlayerLock(p))>> \o Each(ps \ {p})
    IN Each(in_world)

broadcast_ops == <<R(WorldLock), E("foreach_player", 0), U(WorldLock)>>

\* Server::remove_client: clients.write() is held to the end.  An id of the
\* registry is removed and that is all; else world.write() for
\* remove_player, and for a player that was there player.read(),
\* client.read() held over the two broadcasts
remove_client_ops(id) == <<W(ClientsLock), E("clients_remove", id)>>

remove_client_missing(id) == <<W(WorldLock), E("remove_player", id)>>

remove_client_player(id) ==
    <<U(WorldLock), R(PlayerLock(id)), U(PlayerLock(id)), R(ClientLock(id))>> \o
    broadcast_ops \o broadcast_ops \o <<U(ClientLock(id)), U(ClientsLock)>>

\* Server::kick_user: do_with_client holds clients.read() over
\* client.read().kick(reason)
kick_user_ops(id) == <<R(ClientsLock), E("clients_get", id)>>

kick_user_found(id) ==
    <<R(ClientLock(id)), E("send", id), U(ClientLock(id)), U(ClientsLock)>>

\* ChunkMap::touch_chunk: contains_key under read(), insert under write()
touch_chunk_ops == <<R(ChunksLock), E("contains_key", 0)>>

touch_chunk_missing == <<U(ChunksLock), W(ChunksLock), E("insert_chunk", 0), U(ChunksLock)>>

\* Client::finish_auth, called with the client's write guard held:
\* player.read() and world.read() for the handles, the packets of the login
\* burst, touch_chunk, and server.get_client(self.id).unwrap() for the
\* player list item
finish_auth_ops(id) ==
    <<R(PlayerLock(id)), U(PlayerLock(id)), R(WorldLock), U(WorldLock),
      E("send", id)>> \o touch_chunk_ops \o
    <<E("send_burst", id), R(ClientsLock), E("get_client_unwrap", id),
      U(ClientsLock), E("send", id)>>

\* auth_user with add_player before the broadcast
auth_user_player_first(id) ==
    <<U(WorldLock), R(ClientsLock), E("get_client_unwrap", id), U(ClientsLock),
      W(ClientLock(id)), E("auth", id), R(WorldLock), U(WorldLock),
      W(WorldLock), E("add_player", id), U(WorldLock)>> \o
    broadcast_ops \o finish_auth_ops(id) \o remove_client_ops(id) \o
    <<U(ClientLock(id))>>

\* Server::auth_user after the player limit: get_client(..).unwrap(),
\* client.write() held to the end, client.auth (Login Success is queued),
\* world.read() for the spawn, broadcast, finish_auth, remove_client,
\* world.write() for add_player
auth_user_granted(id) ==
    <<U(WorldLock), R(ClientsLock), E("get_client_unwrap", id), U(ClientsLock),
      W(ClientLock(id)), E("auth", id), R(WorldLock), U(WorldLock)>> \o
    broadcast_ops \o finish_auth_ops(id) \o remove_client_ops(id) \o
    <<W(WorldLock), E("add_player", id), U(WorldLock), U(ClientLock(id))>>

\* Server::auth_user: online_players() under world.read(); a full server
\* kicks and returns
auth_user_ops(id) == <<R(WorldLock), E("online_players", id)>>

auth_user_full(id) == <<U(WorldLock)>> \o kick_user_ops(id)

\* Server::start for one connection: the Protocol is sent to the scheduler,
\* then clients.write() for the insert
accept_ops(c) == <<E("ps_send", c), W(ClientsLock), E("insert", c), U(ClientsLock)>>

\* handle_login_start: client.write() for set_username, and without
\* encryption client.write() again for handle_login
handle_login_start_ops(c, encryption) ==
    <<W(ClientLock(c)), U(ClientLock(c))>> \o
    (IF encryption THEN <<E("encryption_request", c)>>
     ELSE <<W(ClientLock(c)), E("handle_login", c), U(ClientLock(c))>>)

\* handle_encryption_response: client.read() for handle_login
handle_encryption_response_ops(c) ==
    <<R(ClientLock(c)), E("handle_login", c), U(ClientLock(c))>>

\* login_success: the state is Play, then client.read() for uuid and name
login_success_ops(c) == <<E("play", c), R(ClientLock(c)), U(ClientLock(c))>>

\* the packets of the login burst as the protocol writes them: join_game
\* (player.read() over client.read(), then world.read()) and chunk_data
\* (chunks.read()); the other packets take these locks the same way
login_burst_ops(c) ==
    <<R(PlayerLock(c)), R(ClientLock(c)), U(ClientLock(c)), U(PlayerLock(c)),
      R(WorldLock), U(WorldLock), R(ChunksLock), U(ChunksLock)>>

\* handle_chat_message: client.read() held over broadcast_chat
handle_chat_message_ops(c) ==
    <<R(ClientLock(c))>> \o broadcast_ops \o <<U(ClientLock(c))>>

\* Drop for Protocol, on the scheduler's retain
drop_ops(c) == <<E("drop", c)>> \o remove_client_ops(c)
\* std::sync::RwLock.  write() waits for every guard; read() waits for a
\* writer's guard and, where the lock puts writers first (the futex lock of
\* Linux), for a writer that waits.  A guard a thread already holds does not
\* let it pass.  A thread runs from one read() or write() to the next in one
\* step, so a thread in the middle of a program waits for the lock at the
\* head of pc.
Waiting(t) == locks.pc[t] # <<>>

\* the threads a waiting thread waits for
Blockers(t) ==
    IF ~Waiting(t) THEN {}
    ELSE LET i == Head(locks.pc[t])
             WantsWrite(u) == /\ Waiting(u)
                              /\ Head(locks.pc[u]).op = "w"
                              /\ Head(locks.pc[u]).l = i.l
         IN {u \in Threads : locks.w[i.l] = u} \cup
            (IF i.op = "w" THEN {u \in Threads : locks.r[i.l][u] > 0}
             ELSE {u \in Threads \ {t} : locks.writersFirst /\ WantsWrite(u)})

\* a panic unwinds: the thread's guards are dropped, a write guard dropped
\* in a panic poisons its lock
Unwind(L, t) ==
    [L EXCEPT !.pc[t] = <<>>, !.dead = @ \cup {t},
              !.poisoned = @ \cup {l \in Locks : L.w[l] = t},
              !.w = [l \in Locks |-> IF @[l] = t THEN "none" ELSE @[l]],
              !.r = [l \in Locks |-> [@[l] EXCEPT ![t] = 0]]]

\* what a thread does between the locks: i is the step, rest what follows
Effect(L, t, i, rest) ==
    LET id == i.c
        Go(seq) == [L EXCEPT !.pc[t] = seq]
    IN CASE i.op = "u" ->
                IF L.w[i.l] = t THEN [L EXCEPT !.w[i.l] = "none", !.pc[t] = rest]
                ELSE [L EXCEPT !.r[i.l][t] = @ - 1, !.pc[t] = rest]
         [] i.op = "foreach_player" -> Go(foreach_player_ops(L.players) \o rest)
         [] i.op = "clients_remove" ->
                IF id \in L.clients
                THEN [L EXCEPT !.clients = @ \ {id}, !.pc[t] = <<U(ClientsLock)>> \o rest]
                ELSE Go(remove_client_missing(id) \o rest)
         [] i.op = "remove_player" ->
                IF id \in L.players
                THEN [L EXCEPT !.players = @ \ {id},
                               !.pc[t] = remove_client_player(id) \o rest]
                ELSE Go(<<U(WorldLock), U(ClientsLock)>> \o rest)
         [] i.op = "clients_get" ->
                IF id \in L.clients THEN Go(kick_user_found(id) \o rest)
                ELSE Go(<<U(ClientsLock)>> \o rest)
         [] i.op = "get_client_unwrap" ->
                IF id \in L.clients THEN Go(rest) ELSE Unwind(L, t)
         [] i.op = "send" ->
                IF L.state[id] = "Gone" THEN Unwind(L, t) ELSE Go(rest)
         [] i.op = "auth" ->
                IF L.state[id] = "Gone" THEN Unwind(L, t)
                ELSE [L EXCEPT !.queued = @ \cup {id}, !.pc[t] = rest]
         [] i.op = "send_burst" ->
                IF L.state[id] = "Gone" THEN Unwind(L, t)
                ELSE [L EXCEPT !.burst = @ \cup {id}, !.pc[t] = rest]
         [] i.op = "contains_key" ->
                IF L.chunk THEN Go(<<U(ChunksLock)>> \o rest)
                ELSE Go(touch_chunk_missing \o rest)
         [] i.op = "insert_chunk" -> [L EXCEPT !.chunk = TRUE, !.pc[t] = rest]
         [] i.op = "add_player" -> [L EXCEPT !.players = @ \cup {id}, !.pc[t] = rest]
         [] i.op = "online_players" ->
                IF Cardinality(L.players) >= cfg.max_players
                THEN Go(auth_user_full(id))
                ELSE Go(auth_user_granted(id))
         [] i.op = "handle_login" ->
                IF "authenticator" \in L.dead THEN Unwind(L, t)
                ELSE [L EXCEPT !.authq = Append(@, id), !.pc[t] = rest]
         [] i.op = "encryption_request" ->
                [L EXCEPT !.requested = @ \cup {id}, !.pc[t] = rest]
         [] i.op = "ps_send" ->
                IF "scheduler" \in L.dead
                THEN Go(remove_client_ops(id) \o <<E("unwind", id)>>)
                ELSE [L EXCEPT !.state[id] = "Login", !.pc[t] = rest]
         [] i.op = "unwind" -> Unwind(L, t)
         [] i.op = "insert" -> [L EXCEPT !.clients = @ \cup {id}, !.pc[t] = rest]
         [] i.op = "play" -> [L EXCEPT !.state[id] = "Play", !.pc[t] = rest]
         [] i.op = "drop" ->
                [L EXCEPT !.state[id] = "Gone", !.queued = @ \ {id},
                          !.burst = @ \ {id}, !.pc[t] = rest]

\* the thread goes on to its next read() or write(), or to the end
RECURSIVE Run(_, _)
Run(L, t) ==
    IF L.pc[t] = <<>> \/ Head(L.pc[t]).op \in {"r", "w"} THEN L
    ELSE Run(Effect(L, t, Head(L.pc[t]), Tail(L.pc[t])), t)

\* the thread starts on a program
Start(L, t, ops) == Run([L EXCEPT !.pc[t] = ops], t)

Idle(t) == locks.pc[t] = <<>> /\ t \notin locks.dead

LockUnchanged ==
    UNCHANGED <<listener, chunks, cfg, now, prot, client, chan, wire, clients, players,
                authq, sched, acceptor, panicked, hist, codec, column, call>>

LockInit ==
    /\ cfg \in {Config(enc, None, maxp, LockConns, 0, 0) :
                   enc \in BOOLEAN, maxp \in 1..LockConns}
    /\ ServerAtRest
    /\ codec = None
    /\ column = None
    /\ call = None
    /\ chunks = None
    /\ listener = None
    /\ locks \in {[pc |-> [t \in Threads |-> <<>>],
                   dead |-> {},
                   w |-> [l \in Locks |-> "none"],
                   r |-> [l \in Locks |-> [t \in Threads |-> 0]],
                   poisoned |-> {},
                   writersFirst |-> wf,
                   clients |-> {}, players |-> {}, authq |-> <<>>,
                   state |-> [c \in LockIds |-> "New"],
                   queued |-> {}, burst |-> {}, requested |-> {}, chunk |-> FALSE,
                   starts |-> [c \in LockIds |-> 0],
                   chats |-> [c \in LockIds |-> 0]] : wf \in BOOLEAN}

\* the acceptor takes the next connection
LockAccept ==
    /\ Idle("acceptor")
    /\ \E c \in LockIds :
          /\ locks.state[c] = "New"
          /\ \A d \in LockIds : d < c => locks.state[d] # "New"
          /\ locks' = Start(locks, "acceptor", accept_ops(c))
    /\ LockUnchanged

\* the authenticator takes the next AuthInfo (the session server said yes)
LockAuthUser ==
    /\ Idle("authenticator")
    /\ locks.authq # <<>>
    /\ locks' = Start([locks EXCEPT !.authq = Tail(@)], "authenticator",
                      auth_user_ops(Head(locks.authq)))
    /\ LockUnchanged

\* the scheduler comes to a Login Start of a connection in Login
LockLoginStart ==
    /\ Idle("scheduler")
    /\ \E c \in LockIds :
          /\ locks.state[c] = "Login"
          /\ locks.starts[c] < MaxLoginStarts
          /\ locks' = Start([locks EXCEPT !.starts[c] = @ + 1], "scheduler",
                            handle_login_start_ops(c, cfg.encryption))
    /\ LockUnchanged

\* ... to an Encryption Response
LockEncryptionResponse ==
    /\ Idle("scheduler")
    /\ \E c \in LockIds :
          /\ locks.state[c] = "Login"
          /\ c \in locks.requested
          /\ locks' = Start([locks EXCEPT !.requested = @ \ {c}], "scheduler",
                            handle_encryption_response_ops(c))
    /\ LockUnchanged

\* ... to the Login Success in a connection's queue
LockLoginSuccess ==
    /\ Idle("scheduler")
    /\ \E c \in locks.queued :
          /\ locks.state[c] = "Login"
          /\ locks' = Start([locks EXCEPT !.queued = @ \ {c}], "scheduler",
                            login_success_ops(c))
    /\ LockUnchanged

\* ... to the packets of the login burst in a connection's queue
LockLoginBurst ==
    /\ Idle("scheduler")
    /\ \E c \in locks.burst \ locks.queued :
          /\ locks.state[c] = "Play"
          /\ locks' = Start([locks EXCEPT !.burst = @ \ {c}], "scheduler",
                            login_burst_ops(c))
    /\ LockUnchanged

\* ... to a chat message of a connection in Play
LockChat ==
    /\ Idle("scheduler")
    /\ \E c \in LockIds :
          /\ locks.state[c] = "Play"
          /\ locks.chats[c] < MaxChats
          /\ locks' = Start([locks EXCEPT !.chats[c] = @ + 1], "scheduler",
                            handle_chat_message_ops(c))
    /\ LockUnchanged

\* ... to a Protocol that is Disconnected, and drops it
LockDrop ==
    /\ Idle("scheduler")
    /\ \E c \in LockIds :
          /\ locks.state[c] \in {"Login", "Play"}
          /\ locks' = Start(locks, "scheduler", drop_ops(c))
    /\ LockUnchanged

\* read() or write() returns: with the guard, or with a PoisonError and
\* unwrap panics
Obtain(t) ==
    LET i == Head(locks.pc[t])
    IN /\ Waiting(t)
       /\ Blockers(t) = {}
       /\ locks' = IF i.l \in locks.poisoned THEN Unwind(locks, t)
                   ELSE IF i.op = "w"
                   THEN Run([locks EXCEPT !.w[i.l] = t, !.pc[t] = Tail(@)], t)
                   ELSE Run([locks EXCEPT !.r[i.l][t] = @ + 1, !.pc[t] = Tail(@)], t)

LockObtain ==
    /\ \E t \in Threads : Obtain(t)
    /\ LockUnchanged

LockNext ==
    \/ LockAccept
    \/ LockAuthUser
    \/ LockLoginStart
    \/ LockEncryptionResponse
    \/ LockLoginSuccess
    \/ LockLoginBurst
    \/ LockChat
    \/ LockDrop
    \/ LockObtain

\* every thread runs
LockSpec ==
    /\ LockInit
    /\ [][LockNext]_vars
    /\ WF_vars(LockNext)

-----------------------------------------------------------------------------
(* The accept loop and the first bytes of a connection *)

MaxSockets == 2           \* connections the clients make
HostLen == 1              \* characters of the hostname in a legacy ping

Sockets == 1..MaxSockets

\* what a 1.4 - 1.6 client sends to ping: 0xFE, payload 1, 0xFA, the length
\* 11 and "MC|PingHost" in UTF-16BE, the length of the rest, the protocol
\* version, the hostname with its length, the port
LegacyPing(payload) ==
    <<254, payload, 250, 0, 11>> \o
    <<0, 77, 0, 67, 0, 124, 0, 80, 0, 105, 0, 110, 0, 103, 0, 72, 0, 111, 0, 115, 0, 116>> \o
    <<0, 7 + 2 * HostLen, 74, 0, HostLen>> \o [k \in 1..(2 * HostLen) |-> (k + 1) % 2 * 97] \o
    <<0, 0, 99, 221>>

\* what a client sends first: nothing, a handshake (a length prefix first),
\* a legacy ping, or a legacy ping with a payload that is not 1
FirstData == {<<>>, <<15, 0, 47>>, LegacyPing(1), LegacyPing(2)}

\* handle_legacy_ping reads these fields in this order: read_ubyte,
\* read_ushort, read_exact and read_int, each of which waits for all of its
\* bytes
FieldSize(field, len) ==
    CASE field \in {1, 2, 6} -> 1
      [] field \in {3, 5, 7} -> 2
      [] field = 4 -> 22
      [] field = 8 -> 2 * len
      [] field = 9 -> 4

ListenerUnchanged ==
    UNCHANGED <<locks, chunks, cfg, now, prot, client, chan, wire, clients, players,
                authq, sched, acceptor, panicked, hist, codec, column, call>>

ListenerInit ==
    /\ cfg = Config(FALSE, None, MaxSockets, MaxSockets, 0, 0)
    /\ ServerAtRest
    /\ codec = None
    /\ column = None
    /\ call = None
    /\ locks = None
    /\ chunks = None
    /\ listener = [pc |-> "accept", cur |-> 0, field |-> 0, len |-> 0,
                   backlog |-> <<>>, given |-> <<>>,
                   unsent |-> [c \in Sockets |-> <<>>],
                   stream |-> [c \in Sockets |-> <<>>],
                   open |-> [c \in Sockets |-> FALSE],
                   connected |-> 0]

\* a client connects: the connection waits in the listen queue
Connect ==
    /\ listener.connected < MaxSockets
    /\ \E data \in FirstData :
          LET c == listener.connected + 1
          IN listener' = [listener EXCEPT !.connected = c,
                                          !.backlog = Append(@, c),
                                          !.unsent[c] = data,
                                          !.open[c] = TRUE]
    /\ ListenerUnchanged

\* a client's next byte, or all of its bytes, arrive
ClientSend ==
    /\ \E c \in Sockets : \E n \in {1, Len(listener.unsent[c])} :
          /\ listener.open[c]
          /\ n > 0 /\ n <= Len(listener.unsent[c])
          /\ listener' = [listener EXCEPT
                 !.stream[c] = @ \o SubSeq(listener.unsent[c], 1, n),
                 !.unsent[c] = SubSeq(@, n + 1, Len(@))]
    /\ ListenerUnchanged

\* a client closes its connection
ClientClose ==
    /\ \E c \in Sockets :
          /\ listener.open[c]
          /\ listener' = [listener EXCEPT !.open[c] = FALSE, !.unsent[c] = <<>>]
    /\ ListenerUnchanged

\* Server::start: listener.incoming() gives the next connection, and
\* Protocol::legacy_ping is called on it
AcceptorAccept ==
    /\ listener.pc = "accept"
    /\ listener.backlog # <<>>
    /\ listener' = [listener EXCEPT !.pc = "peek", !.cur = Head(listener.backlog),
                                    !.backlog = Tail(@)]
    /\ ListenerUnchanged

\* peek on the blocking socket has nothing to return
PeekWaits ==
    /\ listener.pc = "peek"
    /\ listener.stream[listener.cur] = <<>>
    /\ listener.open[listener.cur]

\* legacy_ping: stream.peek returns (a byte is there, or the peer has
\* closed: Ok(0)).  0xFE is read and handle_legacy_ping begins; anything
\* else, and the loop goes on: set_nonblocking, Protocol::new, ps.send, the
\* insert, the next accept
AcceptorPeek ==
    /\ listener.pc = "peek"
    /\ ~PeekWaits
    /\ LET c == listener.cur
           s == listener.stream[c]
       IN listener' =
              IF s # <<>> /\ s[1] = 254
              THEN [listener EXCEPT !.pc = "ping", !.field = 1, !.stream[c] = Tail(s)]
              ELSE [listener EXCEPT !.pc = "accept", !.cur = 0,
                                    !.given = Append(@, c)]
    /\ ListenerUnchanged

\* a read of handle_legacy_ping has fewer bytes than it asks for
ReadWaits ==
    /\ listener.pc = "ping"
    /\ Len(listener.stream[listener.cur]) < FieldSize(listener.field, listener.len)
    /\ listener.open[listener.cur]

\* handle_legacy_ping, one read: the end of the stream before the field is
\* whole is an Err and unwrap panics, and so do the two assert_eq; after the
\* port the socket is shut down and Server::start returns
AcceptorRead ==
    /\ listener.pc = "ping"
    /\ ~ReadWaits
    /\ LET c == listener.cur
           s == listener.stream[c]
           n == FieldSize(listener.field, listener.len)
           v == IF n = 1 THEN s[1] ELSE s[1] * 256 + s[2]
       IN listener' =
              IF Len(s) < n THEN [listener EXCEPT !.pc = "panicked"]
              ELSE IF listener.field = 1 /\ v # 1 THEN [listener EXCEPT !.pc = "panicked"]
              ELSE IF listener.field = 3 /\ v # 11 THEN [listener EXCEPT !.pc = "panicked"]
              ELSE [listener EXCEPT
                       !.stream[c] = SubSeq(s, n + 1, Len(s)),
                       !.len = IF listener.field = 7 THEN v ELSE @,
                       !.field = IF @ = 9 THEN 0 ELSE @ + 1,
                       !.pc = IF listener.field = 9 THEN "returned" ELSE @,
                       !.open[c] = IF listener.field = 9 THEN FALSE ELSE @]
    /\ ListenerUnchanged

ListenerNext ==
    \/ Connect
    \/ ClientSend
    \/ ClientClose
    \/ AcceptorAccept
    \/ AcceptorPeek
    \/ AcceptorRead

ListenerSpec == ListenerInit /\ [][ListenerNext]_vars

-----------------------------------------------------------------------------
(* A ChunkMap and the threads that call it *)

MaxCoords == 2            \* chunk coordinates 1..MaxCoords
MaxCalls == 3             \* calls of a thread
MaxEdits == 2             \* modifications of a chunk

MapThreads == {"a", "b"}
Coords == 1..MaxCoords

\* the chunk touch_chunk generates; a chunk is known by its modifications
NewChunk == [edits |-> 0]

ChunkMapUnchanged ==
    UNCHANGED <<listener, locks, cfg, now, prot, client, chan, wire, clients, players,
                authq, sched, acceptor, panicked, hist, codec, column, call>>

\* ChunkMap::new: no chunk.  touched: the coords a touch_chunk has returned
\* for; last: the call that came last to its end, n counts them
ChunkMapInit ==
    /\ cfg = Config(FALSE, None, 1, 1, 0, 0)
    /\ ServerAtRest
    /\ codec = None
    /\ column = None
    /\ call = None
    /\ locks = None
    /\ listener = None
    /\ chunks = [map |-> [c \in Coords |-> None],
                 pc |-> [t \in MapThreads |-> "idle"],
                 coord |-> [t \in MapThreads |-> 0],
                 calls |-> [t \in MapThreads |-> 0],
                 touched |-> {},
                 last |-> [n |-> 0, op |-> "none", coord |-> 0, invoked |-> FALSE]]

Returned(op, c, invoked) ==
    [n |-> chunks.last.n + 1, op |-> op, coord |-> c, invoked |-> invoked]

\* touch_chunk, its first block: contains_key under chunks.read(); the call
\* returns when the key is there
TouchChunkCheck ==
    /\ \E t \in MapThreads, c \in Coords :
          /\ chunks.pc[t] = "idle"
          /\ chunks.calls[t] < MaxCalls
          /\ chunks' = IF chunks.map[c].some
                       THEN [chunks EXCEPT !.calls[t] = @ + 1,
                                           !.touched = @ \cup {c},
                                           !.last = Returned("touch_chunk", c, FALSE)]
                       ELSE [chunks EXCEPT !.calls[t] = @ + 1,
                                           !.pc[t] = "insert", !.coord[t] = c]
    /\ ChunkMapUnchanged

\* touch_chunk, the rest: the chunk is generated and inserted under
\* chunks.write()
TouchChunkInsert ==
    /\ \E t \in MapThreads :
          /\ chunks.pc[t] = "insert"
          /\ LET c == chunks.coord[t]
             IN chunks' = [chunks EXCEPT !.map[c] = Some(NewChunk),
                                         !.pc[t] = "idle", !.coord[t] = 0,
                                         !.touched = @ \cup {c},
                                         !.last = Returned("touch_chunk", c, FALSE)]
    /\ ChunkMapUnchanged

\* do_with_chunk under chunks.read(): the function is called on the chunk
\* that is there
DoWithChunk ==
    /\ \E t \in MapThreads, c \in Coords :
          /\ chunks.pc[t] = "idle"
          /\ chunks.calls[t] < MaxCalls
          /\ chunks' = [chunks EXCEPT
                 !.calls[t] = @ + 1,
                 !.last = Returned("do_with_chunk", c, chunks.map[c].some)]
    /\ ChunkMapUnchanged

\* do_with_chunk_mut under chunks.write(): the function changes the chunk
\* that is there
DoWithChunkMut ==
    /\ \E t \in MapThreads, c \in Coords :
          /\ chunks.pc[t] = "idle"
          /\ chunks.calls[t] < MaxCalls
          /\ chunks.map[c].some => chunks.map[c].v.edits < MaxEdits
          /\ chunks' = [chunks EXCEPT
                 !.calls[t] = @ + 1,
                 !.map[c] = IF @.some THEN Some([edits |-> @.v.edits + 1]) ELSE @,
                 !.last = Returned("do_with_chunk_mut", c, chunks.map[c].some)]
    /\ ChunkMapUnchanged

ChunkMapNext ==
    \/ TouchChunkCheck
    \/ TouchChunkInsert
    \/ DoWithChunk
    \/ DoWithChunkMut

ChunkMapSpec == ChunkMapInit /\ [][ChunkMapNext]_vars

-----------------------------------------------------------------------------
(* ChunkColumn's accessors of single blocks *)
(***************************************************************************)
(* get_block, set_block, get_meta and set_meta of a ChunkColumn at a       *)
(* position relative to the chunk.  A call gives the column it leaves      *)
(* behind, whether it panicked, and the value it returned.  The positions  *)
(* tried are small, so the i32 arithmetic of the index never overflows.    *)
(***************************************************************************)
HEIGHT == WIDTH * SECTION_COUNT

\* the discriminants of blocks::BlockType: Air, Stone, Grass, Dirt, CobbleStone
BlockTypes == 0..4

Air == 0

is_valid_width(x) == x >= 0 /\ x < WIDTH

is_valid_height(y) == y >= 0 /\ y < HEIGHT

is_valid_rel_pos(rel_pos) ==
    /\ is_valid_width(rel_pos.x)
    /\ is_valid_height(rel_pos.y)
    /\ is_valid_width(rel_pos.z)

\* the `/` of i32 rounds toward zero
i32_div(a, b) == IF a >= 0 THEN a \div b ELSE -((-a) \div b)

\* an index into an array of len elements.  A negative i32 cast `as usize`
\* is at least 2^64 - 2^31, beyond every array, so the negative values stand
\* for themselves here and are out of bounds.
InBounds(i, len) == i >= 0 /\ i < len

\* assert!(!Chunk::is_valid_rel_pos(rel_pos)) fails exactly when the position
\* is valid
get_indices_from_rel_pos(rel_pos) ==
    [panic |-> ~ ~is_valid_rel_pos(rel_pos),
     section |-> i32_div(rel_pos.y, WIDTH),
     index |-> rel_pos.x + rel_pos.z * WIDTH + rel_pos.y * AREA]

\* the section set_block and set_meta put where none is
EmptySection ==
    LET half == SECTION_BLOCK_COUNT \div 2
    IN [block_types |-> Bytes([k \in 1..SECTION_BLOCK_COUNT |-> 0]),
        block_metas |-> Bytes([k \in 1..half |-> 0]),
        block_light |-> Bytes([k \in 1..half |-> 0]),
        block_sky_light |-> Bytes([k \in 1..half |-> 255])]

Done(data, ret) == [panic |-> FALSE, data |-> data, ret |-> ret]

Unwound(data) == [panic |-> TRUE, data |-> data, ret |-> 0]

get_block(data, rel_pos) ==
    LET at == get_indices_from_rel_pos(rel_pos)
    IN IF at.panic \/ ~InBounds(at.section, SECTION_COUNT) THEN Unwound(data)
       ELSE IF ~data.sections[at.section + 1].some THEN Done(data, Air)
       ELSE IF ~InBounds(at.index, SECTION_BLOCK_COUNT) THEN Unwound(data)
       ELSE LET b == data.sections[at.section + 1].v.block_types[at.index + 1]
            IN \* from_u8 gives None for a byte that is no block type
               IF b \in BlockTypes THEN Done(data, b) ELSE Unwound(data)

\* the column once the section at.section exists
WithSection(data, at) ==
    IF data.sections[at.section + 1].some THEN data
    ELSE [data EXCEPT !.sections[at.section + 1] = Some(EmptySection)]

set_block(data, rel_pos, block_type) ==
    LET at == get_indices_from_rel_pos(rel_pos)
    IN IF at.panic \/ ~InBounds(at.section, SECTION_COUNT) THEN Unwound(data)
       ELSE IF ~data.sections[at.section + 1].some /\ block_type = Air
       THEN Done(data, 0)
       ELSE IF ~InBounds(at.index, SECTION_BLOCK_COUNT)
       THEN Unwound(WithSection(data, at))
       ELSE Done([WithSection(data, at) EXCEPT
                          !.sections[at.section + 1].v.block_types[at.index + 1] =
                              block_type], 0)

\* x >> ((index & 1) * 4) and x << ((index & 1) * 4) on u8
shr_nibble(x, index) == IF index % 2 = 1 THEN shr4(x) ELSE x

shl_nibble(x, index) == IF index % 2 = 1 THEN shl4(x) ELSE x

get_meta(data, rel_pos) ==
    LET at == get_indices_from_rel_pos(rel_pos)
    IN IF at.panic \/ ~InBounds(at.section, SECTION_COUNT) THEN Unwound(data)
       ELSE IF ~data.sections[at.section + 1].some THEN Done(data, 0)
       ELSE IF ~InBounds(at.index \div 2, SECTION_BLOCK_COUNT \div 2) THEN Unwound(data)
       ELSE Done(data,
                ByteOp("and",
                       shr_nibble(data.sections[at.section + 1].v.block_metas[
                                      at.index \div 2 + 1], at.index),
                       15))

set_meta(data, rel_pos, block_meta) ==
    LET at == get_indices_from_rel_pos(rel_pos)
        Store(with) ==
            LET old == with.sections[at.section + 1].v.block_metas[at.index \div 2 + 1]
            IN [with EXCEPT
                   !.sections[at.section + 1].v.block_metas[at.index \div 2 + 1] =
                       ByteOp("or",
                              ByteOp("and", old, shr_nibble(240, at.index)),
                              shl_nibble(ByteOp("and", block_meta, 15), at.index))]
    IN IF at.panic \/ ~InBounds(at.section, SECTION_COUNT) THEN Unwound(data)
       ELSE IF ~data.sections[at.section + 1].some /\ ByteOp("and", block_meta, 15) = 0
       THEN Done(data, 0)
       ELSE IF ~InBounds(at.index \div 2, SECTION_BLOCK_COUNT \div 2)
       THEN Unwound(WithSection(data, at))
       ELSE Done(Store(WithSection(data, at)), 0)

\* the positions tried: the corners of the valid range and their neighbours
\* outside it
RelX == {0, 15, 16}

RelY == {-1, 0, 15, 16, 255, 256}

RelZ == {0, 15, 16}

\* the columns tried: empty, the lowest section as a chunk map generates it,
\* and two sections of arbitrary bytes
BlockColumns == { <<{}, 0>>, <<{0}, 0>>, <<{0, 15}, 1>> }

\* the values written: block types, and meta bytes with and without high bits
SetBlocks == {0, 1, 4}

SetMetas == {0, 5, 15, 16, 165}

BlockInit ==
    /\ cfg = Config(TRUE, Some(256), 20, 1, 0, 0)
    /\ ServerAtRest
    /\ codec = None
    /\ call = None
    /\ locks = None
    /\ chunks = None
    /\ listener = None
    /\ \E c \in BlockColumns, x \in RelX, y \in RelY, z \in RelZ :
          column = [present |-> c[1], gen |-> c[2],
                    rel_pos |-> [x |-> x, y |-> y, z |-> z],
                    data |-> Chunk(c[1], c[2]).data,
                    set |-> "none", arg |-> 0, got |-> "none", ret |-> 0,
                    panic |-> FALSE]

BlockUnchanged ==
    UNCHANGED <<listener, locks, chunks, cfg, now, prot, client, chan, wire, clients, players, authq,
                sched, acceptor, panicked, hist, codec, call>>

\* the calls of one thread: at most one write, then at most one read; a panic
\* ends it
Wrote(what, arg, r) ==
    column' = [column EXCEPT !.set = what, !.arg = arg, !.data = r.data,
                             !.panic = r.panic]

Read(what, r) ==
    column' = [column EXCEPT !.got = what, !.ret = r.ret, !.panic = r.panic]

SetBlock ==
    /\ ~column.panic /\ column.set = "none" /\ column.got = "none"
    /\ \E b \in SetBlocks : Wrote("block", b, set_block(column.data, column.rel_pos, b))
    /\ BlockUnchanged

SetMeta ==
    /\ ~column.panic /\ column.set = "none" /\ column.got = "none"
    /\ \E m \in SetMetas : Wrote("meta", m, set_meta(column.data, column.rel_pos, m))
    /\ BlockUnchanged

GetBlock ==
    /\ ~column.panic /\ column.got = "none"
    /\ Read("block", get_block(column.data, column.rel_pos))
    /\ BlockUnchanged

GetMeta ==
    /\ ~column.panic /\ column.got = "none"
    /\ Read("meta", get_meta(column.data, column.rel_pos))
    /\ BlockUnchanged

BlockNext == SetBlock \/ SetMeta \/ GetBlock \/ GetMeta

BlockSpec == BlockInit /\ [][BlockNext]_vars

-----------------------------------------------------------------------------
(* Properties *)

C2_PlayImpliesAuthenticated ==
    \A c \in Born :
        prot[c].state = "Play" =>
            /\ client[c].username # <<>>
            /\ client[c].uuid # 0
            /\ hist[c].loginSuccess

\* C3: a body that cannot be decoded leaves its connection Disconnected and
\* the scheduler thread running.
C3_DecodeFailureDisconnects ==
    \A c \in Born :
        hist[c].decodeFail =>
            /\ prot[c].state = "Disconnected"
            /\ "scheduler" \notin panicked

\* C4: after an Encryption Response whose verify token does not decrypt to the
\* stored bytes (other bytes, other length, or no decryption at all) the
\* connection is Disconnected, the scheduler runs, there is no crypter, no
\* AuthInfo of the connection carries a server id, and the client was sent
\* Disconnect "Hacked client" unless that write failed.
C4_TamperedTokenIsRejected ==
    \A c \in Born :
        hist[c].tampered =>
            /\ prot[c].state = "Disconnected"
            /\ "scheduler" \notin panicked
            /\ ~prot[c].crypter
            /\ \A k \in 1 .. Len(authq) :
                  authq[k].client_id = c => ~authq[k].server_id.some
            /\ \/ hist[c].wfail
               \/ \E k \in 1 .. Len(wire[c]) :
                     /\ wire[c][k].kind = "Disconnect"
                     /\ wire[c][k].text = "Hacked client"

\* C5: a crypter is present only on a connection that received, in Login, an
\* Encryption Response whose verify token decrypted to the VERIFY_TOKEN_LEN
\* stored bytes and whose shared secret decrypted to ENCRYPTION_KEY_LEN bytes.
C5_CrypterOnlyAfterValidResponse ==
    \A c \in Born : prot[c].crypter => hist[c].encOk

\* a connection with a crypter, up to Play with encrypted frames on the wire
C5_CrypterPresent ==
    \E c \in Born :
        /\ prot[c].crypter
        /\ prot[c].state = "Play"
        /\ \E k \in 1 .. Len(wire[c]) : wire[c][k].encrypted

\* C6: a Play connection whose last keep-alive is KEEP_ALIVE_MAX old or older
\* is closed by the tick that visits it: when the scheduler is done with the
\* connection in that tick, it is no longer in Play.
C6_SilentClientTimesOut ==
    [][\A c \in ClientIds :
          (/\ sched.ph = "out"
           /\ sched'.ph # "out"
           /\ sched.prots[sched.i] = c
           /\ prot[c].state = "Play"
           /\ now - prot[c].last_keep_alive >= KEEP_ALIVE_MAX)
          => prot'[c].state # "Play"]_vars

\* C7 (as stated): compressed implies state = Play.
C7_CompressedImpliesPlay ==
    \A c \in Born : prot[c].compressed => prot[c].state = "Play"

\* C7 (amended): compressed implies state = Play or Disconnected; compression
\* is never on in HandShaking, Status or Login.
C7_CompressedOnlyAfterLogin ==
    \A c \in Born : prot[c].compressed => prot[c].state \in {"Play", "Disconnected"}

\* a connection that was closed after compression was turned on
C7_CompressedAndDisconnected ==
    \E c \in Born :
        /\ prot[c].compressed
        /\ prot[c].state = "Disconnected"
        /\ \E k \in 1 .. Len(wire[c]) : wire[c][k].kind = "SetCompression"

\* C8: a writer of a Play packet runs only while state = Play; a packet of
\* the batch that is dequeued after the connection was closed is dropped, no
\* writer is called for it.
C8_WritersOnlyInPlay ==
    \A c \in Born : \A a \in hist[c].asserted : a[1] # "play_writer"

\* C9: a connection on which a socket read or write failed is Disconnected.
C9_IoFailureDisconnects ==
    \A c \in Born :
        (hist[c].wfail \/ hist[c].rfail) => prot[c].state = "Disconnected"

\* C10: a connection leaves HandShaking for Status, Login or Disconnected
\* only.
C10_HandshakeTargets ==
    [][\A c \in ClientIds :
          prot[c].state = "HandShaking" =>
              prot'[c].state \in {"HandShaking", "Status", "Login", "Disconnected"}]_vars

\* C11: within one connection, inbound packets are dispatched in the order
\* their frames arrived - the ring is the part of the client's stream that
\* was read and not yet consumed, and every dispatch starts further along
\* the stream than the one before - and outbound packets are sent in the
\* order they were enqueued: the k-th packet sent is the k-th enqueued, and
\* its bytes are written after those of the packets before it.
C11_ArrivalAndQueueOrder ==
    /\ ~codec.panic =>
          codec.received_data = Slice(codec.sent, codec.consumed + 1, codec.read)
    /\ \A i \in 1..(Len(codec.dispatched) - 1) :
          codec.dispatched[i].at < codec.dispatched[i + 1].at
    /\ Len(codec.taken) <= Len(codec.enqueued)
    /\ \A i \in 1..Len(codec.taken) : codec.taken[i].p = codec.enqueued[i]
    /\ \A i \in 1..(Len(codec.taken) - 1) :
          codec.taken[i].wrote <= codec.taken[i + 1].wrote

\* two inbound packets were dispatched and two different outbound packets
\* were queued and sent
C11_TwoInTwoOut ==
    /\ Len(codec.dispatched) >= 2
    /\ Len(codec.taken) >= 2
    /\ codec.taken[1].p # codec.taken[2].p
    /\ codec.taken[1].wrote < codec.taken[2].wrote

\* C12: handle_in_packets dispatches a packet only when its complete frame
\* is in the ring: every packet dispatched is a frame the client sent, in
\* full - its id and its whole body, no byte of it filled in by the zeroed
\* buffer - however the stream is split across socket reads.
C12_OnlyCompleteFramesDispatched ==
    \A i \in 1..Len(codec.dispatched) :
        /\ i <= Len(codec.frames)
        /\ ~codec.dispatched[i].short
        /\ codec.dispatched[i].id = codec.frames[i][1]
        /\ codec.dispatched[i].body = Tail(codec.frames[i])

\* C13: a length prefix that is malformed (continuation bit set on the fifth
\* byte) or that decodes to a negative length is an error that ends the
\* connection: once such a prefix is at the head of the ring, the connection
\* is Disconnected and its socket is shut down.
C13_MalformedPrefixDisconnects ==
    LET ring == codec.received_data
        p == read_var_int(Slice(ring, 1, IF Len(ring) < VAR_INT_MAX_SIZE
                                         THEN Len(ring) ELSE VAR_INT_MAX_SIZE))
    IN (~codec.panic /\ ((~p.ok /\ ~p.eof) \/ (p.ok /\ p.v < 0)))
           => (codec.state = "Disconnected" /\ codec.shut)

\* C14: write_packet frames packet data of length L as varint(L), data with
\* compression off; as varint(L + 1), varint(0), data with compression on
\* and L < threshold; as varint(varint_size(L) + C), varint(L), zlib(data)
\* with compression on and L >= threshold.  So what the peer receives (after
\* decryption, when the connection is encrypted) is exactly those frames,
\* one per packet written, in order.
C14_FramesOnTheWire ==
    LET T == codec.threshold
        Frame14(w) ==
            LET L == Len(w.rbuf)
                z == zlib_encode(w.rbuf)
            IN IF ~w.compressed THEN write_var_int(L) \o w.rbuf
               ELSE IF L < T THEN write_var_int(L + 1) \o write_var_int(0) \o w.rbuf
               ELSE write_var_int(var_int_size(L) + Len(z)) \o write_var_int(L) \o z
        RECURSIVE Frames14(_)
        Frames14(ws) == IF ws = <<>> THEN <<>>
                        ELSE Frame14(Head(ws)) \o Frames14(Tail(ws))
        received == IF codec.crypter.some THEN cfb8_decrypt(0, codec.out).out
                    ELSE codec.out
    IN (\A i \in 1..Len(codec.written) : codec.written[i].ok)
           => received = Frames14(codec.written)

\* C15: a successful auth_user - the step that makes a connection a player,
\* or that queues a LoginSuccess for it - appends to that connection's
\* outbound queue exactly: LoginSuccess, JoinGame, SpawnPosition,
\* ServerDifficulty, PlayerAbilities, 36 ChunkData covering the 6x6 square
\* -3..2 x -3..2, TimeUpdate, PlayerPositionAndLook, PlayerListItem(AddPlayer),
\* in this order.
C15_LoginBurstOrder ==
    [][\A c \in ClientIds :
          LET n == Len(chan[c])
              new == SubSeq(chan'[c], n + 1, Len(chan'[c]))
              kinds == [k \in 1..Len(new) |-> new[k].kind]
          IN (\/ c \in players' \ players
              \/ (Len(chan'[c]) > n /\ chan'[c][n + 1].kind = "LoginSuccess"))
             => /\ SubSeq(chan'[c], 1, n) = chan[c]
                /\ Len(new) = 44
                /\ SubSeq(kinds, 1, 5) = <<"LoginSuccess", "JoinGame", "SpawnPosition",
                                           "ServerDifficulty", "PlayerAbilities">>
                /\ \A k \in 6..41 : kinds[k] = "ChunkData"
                /\ {<<new[k].x, new[k].z>> : k \in 6..41} = (-3..2) \X (-3..2)
                /\ kinds[42] = "TimeUpdate"
                /\ kinds[43] = "PlayerPositionAndLook"
                /\ kinds[44] = "PlayerListItem" /\ new[44].text = "AddPlayer"]_vars

\* a connection became a player and the whole burst is still in its queue,
\* LoginSuccess at its head
C15_BurstQueued ==
    \E c \in players :
        /\ Len(chan[c]) = 44
        /\ chan[c][1].kind = "LoginSuccess"
        /\ chan[c][2].kind = "JoinGame"
        /\ chan[c][43].kind = "PlayerPositionAndLook"
        /\ chan[c][44].kind = "PlayerListItem"

\* C16: when auth_user runs for a login while the online player count is
\* already >= max_players, that connection is sent a Disconnect with reason
\* "The server is currently full." - the step queues it for the connection -
\* and the connection is not (and does not become) a player.
C16_FullServerKicks ==
    [][\A c \in ClientIds :
          (hist'[c].full /\ ~hist[c].full)
              => /\ chan'[c] = Append(chan[c],
                       Packet("Disconnect", "The server is currently full.", 0, 0))
                 /\ c \notin players']_vars

\* C17: when the session validator fails for an AuthInfo (AuthFailed or
\* NoServerId), the connection that sent it is sent a Disconnect: the step
\* that takes the failed answer queues a Disconnect packet for it.
C17_AuthFailureDisconnects ==
    [][\A c \in ClientIds :
          (hist'[c].authFailed /\ ~hist[c].authFailed)
              => /\ Len(chan'[c]) = Len(chan[c]) + 1
                 /\ chan'[c][Len(chan'[c])].kind = "Disconnect"]_vars

\* C18: handling a legacy ping connection (first byte 0xFE) does not disturb
\* later connections: after it was handled and closed, the accept loop is
\* still running, ready to accept the next connection.
C18_AcceptsAfterLegacyPing ==
    acceptor.legacy => (~acceptor.returned /\ "acceptor" \notin panicked)

\* C19: for every chunk column, whichever sections are present and whatever
\* bytes they hold, write_block_info_sse2, write_block_info_avx2,
\* write_block_info_neon and the dispatching write_block_info write exactly
\* the bytes write_block_info_fallback writes.
C19_VariantsMatchFallback ==
    column.call \in {"fallback", "sse2", "avx2", "neon", "write_block_info"}
        => column.out = write_block_info_fallback(column.chunk.data.sections)

\* the AVX2 variant has written the block info of a column with three
\* sections, two bytes per block
C19_Avx2OnThreeSections ==
    /\ column.call = "avx2"
    /\ column.present = {0, 3, 15}
    /\ Len(column.out) = 3 * 2 * SECTION_BLOCK_COUNT

\* C20: bit i of get_primary_bit_mask is set exactly when section i is
\* present, so the number n of its set bits is get_num_sections; sections
\* {0, 3, 15} give 0x8009 and n = 3; the size serialize announces in its
\* leading VarInt and the number of bytes it writes after it are both
\* n * 12288 + 256.
C20_MaskAndPayloadSize ==
    LET data == column.chunk.data
        mask == get_primary_bit_mask(data)
        n == get_num_sections(data)
        bits == {i \in 0..(SECTION_COUNT - 1) : (mask \div (2 ^ i)) % 2 = 1}
        announced == read_var_int(column.out)
    IN /\ mask \in 0..65535
       /\ \A i \in 0..(SECTION_COUNT - 1) : (i \in bits) <=> data.sections[i + 1].some
       /\ Cardinality(bits) = n
       /\ column.present = {0, 3, 15} => (mask = 32777 /\ n = 3)
       /\ column.call = "serialize" =>
             /\ announced.ok
             /\ announced.v = n * 12288 + 256
             /\ Len(column.out) - announced.used = n * 12288 + 256

\* a column with sections 0, 3 and 15 has been serialized
C20_ThreeSectionsSerialized ==
    /\ column.call = "serialize"
    /\ column.present = {0, 3, 15}
    /\ Len(column.out) > 3 * 12288

\* C21: for every 20-byte digest d, java_hex_digest(d) is a '-' exactly when
\* the top bit of d is set, followed by lowercase hexadecimal digits, at
\* least one, without leading zero digits, whose value is d, or the negation
\* of d modulo 2^160 after a '-'; the all-zero digest gives "0".
C21_SignedHexOfDigest ==
    call.done =>
        LET d == call.input
            out == call.out
            negative == d[1] >= 128
            signed == Len(out) > 0 /\ out[1] = "-"
            digits == IF signed THEN Tail(out) ELSE out
            n == Len(digits)
            value(c) == CHOOSE v \in 0..15 : HexChars[v + 1] = c
            \* the 40 nibbles of the magnitude, padded on the left with zeros
            nibble(j) == IF j <= 2 * DIGEST_LEN - n THEN 0
                         ELSE value(digits[j - (2 * DIGEST_LEN - n)])
            m == [k \in 1..DIGEST_LEN |-> 16 * nibble(2 * k - 1) + nibble(2 * k)]
            \* the carry into byte k of m + d
            RECURSIVE carry(_)
            carry(k) == IF k = DIGEST_LEN THEN 0
                        ELSE (m[k + 1] + d[k + 1] + carry(k + 1)) \div 256
        IN /\ signed <=> negative
           /\ n >= 1 /\ n <= 2 * DIGEST_LEN
           /\ \A j \in 1..n : \E v \in 0..15 : HexChars[v + 1] = digits[j]
           /\ n > 1 => digits[1] # "0"
           /\ IF negative
              THEN \A k \in 1..DIGEST_LEN : (m[k] + d[k] + carry(k)) % 256 = 0
              ELSE m = d
           /\ (\A k \in 1..DIGEST_LEN : d[k] = 0) => out = <<"0">>

\* C22: for all (x, y, z) with |x|, |z| < 2^25 and |y| < 2^11, read_position
\* of the bytes written by write_position(x, y, z) returns (x, y, z), also
\* for negative coordinates.
C22_PositionRoundTrip ==
    LET abs(n) == IF n < 0 THEN 0 - n ELSE n
    IN (/\ call.step = "read"
        /\ abs(call.x) < 33554432 /\ abs(call.z) < 33554432 /\ abs(call.y) < 2048)
           => call.read = <<call.x, call.y, call.z>>

\* C23: over the lifetime of a connection at most one AuthInfo is sent to
\* the authenticator for it and at most one LoginSuccess is put on its
\* outbound queue, whatever the client sends.
C23_OneAuthInfoOneLoginSuccess ==
    \A c \in ClientIds : hist[c].authInfos <= 1 /\ hist[c].queuedLogins <= 1

\* C24: the authenticator worker never stops, so that every AuthInfo in its
\* channel is eventually dequeued and handled, whatever happened to the
\* requests before it: while an AuthInfo waits in the channel the worker has
\* not ended.
C24_AuthenticatorKeepsServing ==
    authq # <<>> => "authenticator" \notin panicked

\* C25: under every interleaving of the acceptor, the scheduler and the
\* authenticator, the client_id of a Protocol that was evicted and dropped
\* leaves the registry and the world's player list and stays out: once the
\* Protocol is dropped and the acceptor has passed the insertion of its
\* client, the id is in neither.
C25_DroppedIdsLeave ==
    \A c \in ClientIds :
        (prot[c].dropped /\ c \in Born /\ \A k \in DOMAIN acceptor.pending :
                                             acceptor.pending[k] # c)
            => (c \notin clients /\ c \notin players)

\* C26: with a crypter installed, what write_packet puts on the socket for
\* a packet is the AES/CFB8 encryption of the frame that the branch without
\* crypter writes for the same packet and compression setting, and nothing
\* else: the socket holds the encryption, continued from packet to packet,
\* of those frames one after another.
C26_EncryptedFrameIsThePlainFrame ==
    LET RECURSIVE PlainFrames(_)
        PlainFrames(ws) ==
            IF ws = <<>> THEN <<>>
            ELSE Flat(Framing([codec EXCEPT !.compressed = Head(ws).compressed],
                              Head(ws).rbuf))
                 \o PlainFrames(Tail(ws))
    IN (/\ codec.crypter.some
        /\ \A i \in 1..Len(codec.written) : codec.written[i].ok)
           => codec.out = cfb8_encrypt(0, PlainFrames(codec.written)).out

\* C27: once an Encryption Response has been accepted, every inbound byte
\* that follows its frame in the stream is decrypted before it is parsed,
\* however the stream is split into reads, and no byte of or before the
\* frame is decrypted: the bytes that went to the ring as they came are
\* exactly those up to the end of the Encryption Response.
C27_DecryptedFromTheResponseOn ==
    LET response == Flat(Framing([compressed |-> FALSE, threshold |-> codec.threshold],
                                 codec.frames[1]))
    IN (codec.authInfos > 0 /\ codec.crypter.some) => codec.clear = Len(response)

\* C29: a complete frame in the receive ring does not wait for new data to
\* be dispatched.  handle_in_packets runs only in process_data after a read
\* of at least one byte, so it comes to this: when every byte the peer sent
\* has been read and the connection is neither Disconnected nor closed, the
\* ring does not begin with a complete frame (a length prefix and that many
\* bytes) - also when the frame before it was zlib-compressed.
C29_NoFrameWaitsForNewData ==
    LET ring == codec.received_data
        p == read_var_int(Slice(ring, 1, IF Len(ring) < VAR_INT_MAX_SIZE
                                         THEN Len(ring) ELSE VAR_INT_MAX_SIZE))
    IN (Live /\ codec.peer = <<>> /\ ~codec.closed)
           => ~(Len(ring) > 0 /\ p.ok /\ p.v >= 0 /\ Len(ring) >= p.used + p.v)

\* C28: the 30 s of "Timed out!" run from the last inbound Keep Alive that
\* was accepted, and not from before the connection entered Play: a
\* Disconnect "Timed out!" is written only when KEEP_ALIVE_MAX or more has
\* passed since the later of the two, the entry into Play and the last
\* accepted Keep Alive.
C28_WindowStartsInPlay ==
    [][\A c \in ClientIds :
          (\E k \in (Len(wire[c]) + 1) .. Len(wire'[c]) :
               wire'[c][k].text = "Timed out!")
          => LET start == IF hist[c].playAt > prot[c].last_keep_alive
                          THEN hist[c].playAt ELSE prot[c].last_keep_alive
             IN now - start >= KEEP_ALIVE_MAX]_vars

\* C30: in HandShaking, Status, Login and Play a packet whose id the state
\* does not accept moves the Protocol to Disconnected and does nothing else.
\* For the connection the scheduler is about to read from, whatever the
\* socket does with a write or a shutdown: handle_packet of such a packet
\* returns (no panic), leaves the state Disconnected, and leaves the client,
\* the outbound queues, the authenticator's queue and the rest of the
\* Protocol as they were; the socket is shut down and may have been sent a
\* Disconnect packet.
C30_UnknownIdOnlyDisconnects ==
    \A failAt \in {0, 1}, ekind \in WriteErrors, shutOk \in BOOLEAN :
        (/\ sched.ph = "process"
         /\ "scheduler" \notin panicked
         /\ prot[sched.prots[sched.i]].state \in {"HandShaking", "Status", "Login", "Play"})
        => LET ctx == MkCtx(sched.prots[sched.i], failAt, ekind, shutOk)
               r == handle_packet(ctx, Frame(127, TRUE, 0, "ok", "ok", FALSE))
           IN /\ ~r.panic
              /\ r.p.state = "Disconnected"
              /\ [r.p EXCEPT !.shut = TRUE] =
                     [ctx.p EXCEPT !.state = "Disconnected", !.shut = TRUE]
              /\ r.cl = ctx.cl
              /\ r.ch = ctx.ch
              /\ r.aq = ctx.aq
              /\ \/ r.w = ctx.w
                 \/ /\ Len(r.w) = Len(ctx.w) + 1
                    /\ SubSeq(r.w, 1, Len(ctx.w)) = ctx.w
                    /\ r.w[Len(r.w)].kind = "Disconnect"

\* what handle_packet makes of a well-formed Login Start on the connection
\* the scheduler is about to read from, the socket failing at its write
\* failAt (0: at none)
LoginStartOk(failAt, ekind) ==
    (/\ sched.ph = "process"
     /\ "scheduler" \notin panicked
     /\ prot[sched.prots[sched.i]].state = "Login")
    => LET c == sched.prots[sched.i]
           ctx == MkCtx(c, failAt, ekind, TRUE)
           r == handle_packet(ctx, Frame(0, TRUE, 0, "ok", "ok", FALSE))
       IN /\ ~r.panic
          /\ r.p.state = "Login"
          /\ IF cfg.encryption
             THEN /\ r.w = Append(ctx.w, Written(1, "EncryptionRequest",
                                                 verify_token(c),
                                                 ctx.p.compressed, ctx.p.crypter))
                  /\ r.aq = ctx.aq
             ELSE /\ r.w = ctx.w
                  /\ r.aq = Append(ctx.aq, [client_id |-> c, server_id |-> None,
                                            username |-> "user"])

\* with encryption on, a connection has sent an AuthInfo only after a valid
\* Encryption Response of its own
AuthInfoOnlyAfterResponse ==
    cfg.encryption => \A c \in ClientIds : hist[c].authInfos > 0 => hist[c].encOk

C32_SetCompressionThenCompressed ==
    \A c \in ClientIds :
        LET w == wire[c]
            sets == {k \in 1 .. Len(w) : w[k].kind = "SetCompression"}
        IN IF cfg.compression_threshold.some
           THEN /\ Cardinality(sets) <= 1
                /\ \A k \in sets :
                      /\ w[k].id = 3
                      /\ w[k].text = ToString(cfg.compression_threshold.v)
                      /\ k < Len(w) => w[k + 1].kind = "LoginSuccess"
                /\ \A j \in 1 .. Len(w) :
                      w[j].compressed <=> \E k \in sets : k < j
                /\ prot[c].compressed <=> sets # {}
           ELSE /\ sets = {}
                /\ ~prot[c].compressed
                /\ \A j \in 1 .. Len(w) : ~w[j].compressed

\* a connection that was sent Set Compression, Login Success and a Play
\* packet after them
C32_CompressedAfterHandoff ==
    \E c \in Born : \E k \in 1 .. Len(wire[c]) :
        /\ wire[c][k].kind = "SetCompression"
        /\ ~wire[c][k].compressed
        /\ k + 2 <= Len(wire[c])
        /\ wire[c][k + 1].kind = "LoginSuccess"
        /\ wire[c][k + 2].compressed

\* the step writes a Keep Alive to connection c
KeepAliveWritten(c) ==
    \E k \in (Len(wire[c]) + 1) .. Len(wire'[c]) : wire'[c][k].kind = "KeepAlive"

\* a keep-alive id is issued only KEEP_ALIVE_INTERVAL or more after the
\* issue before it (after the start of the thread, for the first)
IssuedAfterInterval ==
    /\ sched'.last_keep_alive # sched.last_keep_alive
           => (/\ sched'.keep_alive_id.some
               /\ sched'.last_keep_alive = now
               /\ now - sched.last_keep_alive >= KEEP_ALIVE_INTERVAL)
    /\ (sched'.keep_alive_id.some /\ sched'.keep_alive_id # sched.keep_alive_id)
           => (/\ sched.ph = "idle"
               /\ now - sched.last_keep_alive >= KEEP_ALIVE_INTERVAL)

\* Protocol::keep_alive on the connection the scheduler visits in a tick
\* with an id, the socket failing at its write failAt (0: at none): a
\* connection in Play is sent one Keep Alive with the id of the tick, a
\* connection in another state nothing
VisitedOk(failAt, ekind) ==
    sched.ph = "keepalive"
    => LET c == sched.prots[sched.i]
           ctx == MkCtx(c, failAt, ekind, TRUE)
           r == keep_alive(ctx, sched.keep_alive_id.v)
       IN /\ sched.keep_alive_id.some
          /\ ~r.panic
          /\ IF prot[c].state = "Play"
             THEN r.w = Append(ctx.w, Written(0, "KeepAlive",
                                              ToString(sched.keep_alive_id.v),
                                              ctx.p.compressed, ctx.p.crypter))
             ELSE r.w = ctx.w

\* a Keep Alive is written only by the scheduler's keep_alive, to the
\* connection it visits, that connection being in Play
OnlyPlayIsSent ==
    \A c \in ClientIds :
        KeepAliveWritten(c) => (/\ sched.ph = "keepalive"
                                /\ sched.prots[sched.i] = c
                                /\ prot[c].state = "Play")

C34_DisconnectedIsLeftAlone ==
    [][/\ \A c \in ClientIds :
             prot[c].state = "Disconnected"
             => /\ prot'[c] = [prot[c] EXCEPT !.dropped = prot'[c].dropped]
                /\ wire'[c] = wire[c]
                /\ hist'[c].reads = hist[c].reads
                /\ Len(chan'[c]) >= Len(chan[c])
                /\ SubSeq(chan'[c], 1, Len(chan[c])) = chan[c]
       /\ (sched.ph # "idle" /\ "scheduler" \notin panicked)
             => \A k \in 1 .. Len(sched.prots) :
                   (k > sched.i \/ (k = sched.i /\ sched.ph = "process"))
                   => prot[sched.prots[k]].state # "Disconnected"]_vars

\* a Protocol that became Disconnected with packets in its queue, was
\* removed from the list and dropped, the scheduler running
C34_EvictedWithQueue ==
    \E c \in Born :
        /\ prot[c].state = "Disconnected"
        /\ prot[c].dropped
        /\ chan[c] # <<>>
        /\ c \notin SeqToSet(sched.prots)
        /\ "scheduler" \notin panicked

\* C35: the number of players in the worlds never exceeds max_players,
\* however the logins handled by the authenticator and the disconnects
\* handled by the scheduler interleave.
C35_AtMostMaxPlayers == online_players(MkSv) <= cfg.max_players

\* the server is full and a login was refused for that
C35_FullAndRefused ==
    /\ online_players(MkSv) = cfg.max_players
    /\ cfg.max_players > 0
    /\ \E c \in Born : hist[c].full /\ c \notin players

\* a set of threads that wait for each other: each waits, and waits only
\* for threads of the set
Deadlocked ==
    \E D \in SUBSET Threads :
        /\ D # {}
        /\ \A t \in D : Waiting(t) /\ Blockers(t) # {} /\ Blockers(t) \subseteq D

\* C36: no interleaving of the acceptor, the scheduler and the authenticator
\* deadlocks on the registry, world, chunk, player and client locks, the
\* scheduler's second read of a client's lock inside a broadcast included:
\* no set of threads ever waits for each other, and a thread that is not in
\* a program holds no lock, so that of the threads that wait in read() or
\* write() one can always go on, and with every thread running each call
\* returns.
C36_NoDeadlock ==
    locks # None =>
        /\ ~Deadlocked
        /\ \A t \in Threads, l \in Locks :
               ~Waiting(t) => locks.w[l] # t /\ locks.r[l][t] = 0

\* C36 witness: the scheduler, with a client's read guard from the chat
\* handler, is inside the broadcast and calls read() on the same lock again,
\* while the authenticator, in auth_user with another client's write guard,
\* waits for a lock the scheduler holds
C36_ReentrantReadUnderContention ==
    /\ locks # None
    /\ \E c \in LockIds :
          /\ locks.r[ClientLock(c)]["scheduler"] = 1
          /\ Waiting("scheduler")
          /\ Head(locks.pc["scheduler"]) = R(ClientLock(c))
          /\ \E d \in LockIds \ {c} : locks.w[ClientLock(d)] = "authenticator"
          /\ Blockers("authenticator") = {"scheduler"}

\* C37: the acceptor suspends only in accept - with a connection in hand
\* that has sent no byte yet, or only a part of a legacy ping, it does not
\* wait for that connection (it can go on to accept further connections).
C37_AcceptorWaitsOnlyInAccept ==
    listener # None => ~PeekWaits /\ ~ReadWaits

\* C38: after the size prefix serialize writes, for each present section in
\* ascending index order, 4096 two-byte words, word i with the low byte
\* (block_type[i] << 4) | meta_nibble(i) and the high byte block_type[i] >> 4,
\* where meta_nibble(i) = (block_metas[i / 2] >> ((i & 1) * 4)) & 0x0F; then
\* the 2048 bytes of block light of every present section, then the 2048
\* bytes of sky light of every present section, then the 256 bytes of the
\* biome map; absent sections contribute nothing.
C38_SerializedLayout ==
    column.call = "serialize" =>
        LET sections == column.chunk.data.sections
            idx == SelectSeq([k \in 1..SECTION_COUNT |-> k - 1],
                             LAMBDA i : sections[i + 1].some)
            n == Len(idx)
            half == SECTION_BLOCK_COUNT \div 2
            pre == read_var_int(column.out).used
            out == column.out
            light == pre + n * 2 * SECTION_BLOCK_COUNT
            sky == light + n * half
            biomes == sky + n * half
            meta_nibble(s, i) == (s.block_metas[(i \div 2) + 1] \div (16 ^ (i % 2))) % 16
        IN /\ Len(out) = biomes + AREA
           /\ \A j \in 1..n :
                 LET s == sections[idx[j] + 1].v
                     at == pre + (j - 1) * 2 * SECTION_BLOCK_COUNT
                 IN /\ \A i \in 0..(SECTION_BLOCK_COUNT - 1) :
                          /\ out[at + 2 * i + 1] =
                                 (s.block_types[i + 1] % 16) * 16 + meta_nibble(s, i)
                          /\ out[at + 2 * i + 2] = s.block_types[i + 1] \div 16
                    /\ \A k \in 1..half :
                          /\ out[light + (j - 1) * half + k] = s.block_light[k]
                          /\ out[sky + (j - 1) * half + k] = s.block_sky_light[k]
           /\ \A k \in 1..AREA : out[biomes + k] = column.chunk.biome_map[k]

\* C38 witness: a column with sections 7 and 8 of the test generator has
\* been serialized by the AVX2 build; its first word carries a block type
\* with both nibbles set and a meta nibble
C38_TwoSectionsSerialized ==
    /\ column.call = "serialize"
    /\ column.present = {7, 8}
    /\ column.cpu.avx2
    /\ LET s == column.chunk.data.sections[8].v
       IN /\ s.block_types[1] % 16 # 0
          /\ s.block_types[1] \div 16 # 0
          /\ s.block_metas[1] % 16 # 0

\* after touch_chunk(c) has returned the chunk at c stays, and do_with_chunk(c)
\* calls its function
TouchedChunkIsFound ==
    /\ \A c \in chunks.touched : chunks.map[c].some /\ chunks'.map[c].some
    /\ (chunks'.last.n # chunks.last.n /\ chunks'.last.op = "do_with_chunk"
        /\ chunks'.last.coord \in chunks.touched) => chunks'.last.invoked

\* a chunk that is in the map is changed by do_with_chunk_mut only
OnlyMutChangesAChunk ==
    \A c \in Coords :
        (chunks.map[c].some /\ chunks'.map[c] # chunks.map[c])
            => (chunks'.last.n # chunks.last.n /\ chunks'.last.op = "do_with_chunk_mut")

\* C39: after touch_chunk(c) returns a chunk exists at c and stays present,
\* so that do_with_chunk(c, f) always calls f (the Chunk Data packets of the
\* login burst carry their bit mask and data); and touch_chunk on a coord
\* that holds a chunk never replaces or modifies it, under any interleaving
\* of concurrent touch_chunk and do_with_chunk_mut calls.
C39_TouchKeepsTheChunk ==
    [][chunks # None => (TouchedChunkIsFound /\ OnlyMutChangesAChunk)]_vars

\* the section and the index in it of a valid position, and the column the
\* calls began with
BlockAt(rel_pos) == [section |-> rel_pos.y \div WIDTH,
                     index |-> (rel_pos.y % WIDTH) * AREA + rel_pos.z * WIDTH + rel_pos.x]

ColumnBefore == Chunk(column.present, column.gen).data

\* C40: for every valid relative position (0 <= x, z < 16, 0 <= y < 256),
\* set_block and then get_block returns the block that was set, and set_meta
\* and then get_meta returns the low 4 bits that were set, without a panic
\* and without a change of any other block or nibble; Air (or meta 0)
\* written into an absent section leaves the column unchanged, and reads of
\* an absent section return Air and 0.
C40_SetThenGet ==
    (column # None /\ is_valid_rel_pos(column.rel_pos)) =>
        LET at == BlockAt(column.rel_pos)
            absent == (at.section \notin column.present)
            low == column.arg % 16
            \* the other nibble of the byte that holds the nibble at.index
            other(byte) == IF at.index % 2 = 1 THEN byte % 16 ELSE byte \div 16
            Blocks(o) == IF o.some THEN o.v.block_types ELSE EmptySection.block_types
            Metas(o) == IF o.some THEN o.v.block_metas ELSE EmptySection.block_metas
            OthersKept(before, after) ==
                \A s \in 0..(SECTION_COUNT - 1) :
                    LET b == before.sections[s + 1]
                        a == after.sections[s + 1]
                    IN /\ IF column.set = "block" /\ s = at.section
                          THEN [Blocks(a) EXCEPT ![at.index + 1] = 0] =
                                   [Blocks(b) EXCEPT ![at.index + 1] = 0]
                          ELSE Blocks(a) = Blocks(b)
                       /\ IF column.set = "meta" /\ s = at.section
                          THEN /\ [Metas(a) EXCEPT ![at.index \div 2 + 1] = 0] =
                                      [Metas(b) EXCEPT ![at.index \div 2 + 1] = 0]
                               /\ other(Metas(a)[at.index \div 2 + 1]) =
                                      other(Metas(b)[at.index \div 2 + 1])
                          ELSE Metas(a) = Metas(b)
                       /\ (a.some /\ b.some) =>
                             /\ a.v.block_light = b.v.block_light
                             /\ a.v.block_sky_light = b.v.block_sky_light
            Unchanged(before, after) ==
                (absent /\ (column.set = "none" \/ (column.set = "block" /\ column.arg = Air)
                               \/ (column.set = "meta" /\ low = 0)))
                   => after = before
        IN /\ ~column.panic
           /\ (column.set = "block" /\ column.got = "block") => column.ret = column.arg
           /\ (column.set = "meta" /\ column.got = "meta") => column.ret = low
           /\ (column.set = "none" /\ absent /\ column.got # "none") => column.ret = 0
           /\ Unchanged(ColumnBefore, column.data)
           /\ OthersKept(ColumnBefore, column.data)

====
